---------------------------- MODULE Spec2Model ----------------------------
(***************************************************************************)
(* A model of the device session subsystem of the Telephony Manager        *)
(* server (src/server.js): device enumeration and its cache, the strict    *)
(* device targeting of POST /api/execute, the per-session configuration,   *)
(* and the GET /api/device-status handler with its one-time automatic root *)
(* and its detail cache.                                                   *)
(*                                                                         *)
(* JavaScript strings are sequences of one-character strings, so that      *)
(* trim(), toLowerCase(), includes() and split() are computed, not         *)
(* assumed.  A handler is a sequence of atomic steps: one step is the code *)
(* that runs between two awaits on the single-threaded event loop.         *)
(***************************************************************************)
EXTENDS Integers, Sequences, FiniteSets, TLC

(***************************************************************************)
(* Strings                                                                 *)
(***************************************************************************)
UpperAlpha == <<"A","B","C","D","E","F","G","H","I","J","K","L","M","N","O","P","Q","R","S","T","U","V","W","X","Y","Z">>
LowerAlpha == <<"a","b","c","d","e","f","g","h","i","j","k","l","m","n","o","p","q","r","s","t","u","v","w","x","y","z">>
Digits == {"0","1","2","3","4","5","6","7","8","9"}

\* the lower-case letter of each upper-case letter
LowerOf == [c \in {UpperAlpha[i] : i \in 1..Len(UpperAlpha)} |->
               LowerAlpha[CHOOSE i \in 1..Len(UpperAlpha) : UpperAlpha[i] = c]]

toLowerCaseChar(c) == IF c \in DOMAIN LowerOf THEN LowerOf[c] ELSE c

\* String.prototype.toLowerCase
toLowerCase(s) == [i \in 1..Len(s) |-> toLowerCaseChar(s[i])]

\* the characters the regular expression class \s and trim() treat as blank
IsWhitespace(c) == c \in {" ", "\t", "\n", "\r"}

Min(S) == CHOOSE x \in S : \A y \in S : x <= y
Max(S) == CHOOSE x \in S : \A y \in S : x >= y

\* the positions of s that hold no blank
NonBlank(s) == {i \in 1..Len(s) : ~IsWhitespace(s[i])}

\* String.prototype.trimStart
trimStart(s) == IF NonBlank(s) = {} THEN <<>> ELSE SubSeq(s, Min(NonBlank(s)), Len(s))

\* String.prototype.trim
trim(s) == IF NonBlank(s) = {} THEN <<>> ELSE SubSeq(s, Min(NonBlank(s)), Max(NonBlank(s)))

\* String.prototype.includes
includes(s, sub) ==
    \E i \in 1..(Len(s) - Len(sub) + 1) : SubSeq(s, i, i + Len(sub) - 1) = sub

startsWith(s, p) == Len(s) >= Len(p) /\ SubSeq(s, 1, Len(p)) = p

\* s.split(/\r?\n/): the lines of s, a "\r" before the "\n" being part of the break
RECURSIVE splitLines(_)
splitLines(s) ==
    LET breaks == {i \in 1..Len(s) : s[i] = "\n"}
        k == Min(breaks)
        stop == IF k > 1 /\ s[k - 1] = "\r" THEN k - 2 ELSE k - 1
    IN  IF breaks = {} THEN <<s>>
        ELSE <<SubSeq(s, 1, stop)>> \o splitLines(SubSeq(s, k + 1, Len(s)))

\* s.split(/\s+/) of a trimmed, non-empty s: its blank-separated parts
RECURSIVE splitBlank(_)
splitBlank(s) ==
    LET blanks == {i \in 1..Len(s) : IsWhitespace(s[i])}
        k == Min(blanks)
    IN  IF blanks = {} THEN <<s>>
        ELSE <<SubSeq(s, 1, k - 1)>> \o splitBlank(trimStart(SubSeq(s, k, Len(s))))

Range(seq) == {seq[i] : i \in 1..Len(seq)}

STR_device == <<"d","e","v","i","c","e">>
STR_unauthorized == <<"u","n","a","u","t","h","o","r","i","z","e","d">>
STR_offline == <<"o","f","f","l","i","n","e">>
STR_daemon == <<"d","a","e","m","o","n">>
STR_list_header == <<"l","i","s","t"," ","o","f"," ","d","e","v","i","c","e","s"," ","a","t","t","a","c","h","e","d">>
STR_Success == <<"S","u","c","c","e","s","s">>
STR_Failed == <<"F","a","i","l","e","d">>
STR_root == <<"r","o","o","t">>
STR_adb == <<"a","d","b">>
STR_exe == <<".","e","x","e">>
STR_factorySetimei == <<"f","a","c","t","o","r","y","S","e","t","i","m","e","i">>

(***************************************************************************)
(* The inputs the model draws from                                         *)
(***************************************************************************)
ABC123 == <<"A","B","C","1","2","3">>
XYZ999 == <<"X","Y","Z","9","9","9">>
GONE1 == <<"G","O","N","E","1">>
NL == <<"\n">>
TAB == <<"\t">>
HeaderLine == <<"L","i","s","t"," ","o","f"," ","d","e","v","i","c","e","s"," ","a","t","t","a","c","h","e","d">>
DaemonLine == <<"*"," ","d","a","e","m","o","n"," ","s","t","a","r","t","e","d"," ","s","u","c","c","e","s","s","f","u","l","l","y">>

\* what `<binary> devices` can print (after execAsync trimmed it)
DevicesOne == HeaderLine \o NL \o ABC123 \o TAB \o STR_device
DevicesMixed ==
    DaemonLine \o NL \o HeaderLine \o NL \o XYZ999 \o TAB \o STR_unauthorized
        \o <<"\r">> \o NL \o ABC123 \o TAB \o STR_device
DevicesThree ==
    HeaderLine \o NL \o ABC123 \o TAB \o STR_device \o NL \o GONE1 \o TAB \o STR_offline
        \o NL \o XYZ999 \o <<" ", " ">> \o STR_device
DevicesOutputs == { <<>>, HeaderLine, DevicesOne, DevicesMixed, DevicesThree }


\* what POST /api/execute can be asked to run
CmdWithAdbPrefix == <<" ","A","D","B","1",".","E","X","E"," "," ","s","h","e","l","l"," ","g","e","t","-","s","t","a","t","e">>
CmdSetImei == <<"s","h","e","l","l"," ","s","l","d","d"," ","f","a","c","t","o","r","y","S","e","t","i","m","e","i"," ","4","9","0","1","x">>
Commands == { <<>>, CmdWithAdbPrefix, CmdSetImei }

\* req.body.targetSerial: absent (the empty string is as falsy as undefined),
\* a ready serial in another case, a serial that is not attached, a blank
TargetSerials == { <<>>, <<"a","b","c","1","2","3">>, GONE1, <<" ">> }

\* req.body.serial of POST /api/config
ConfigSerials == { <<>>, GONE1, <<" ">> \o XYZ999 }

\* the results execAsync can resolve to for a device command
StdoutOk == <<"o","k">>
StderrClosed == <<"e","r","r","o","r",":"," ","c","l","o","s","e","d">>
ExecResults ==
    { [success |-> TRUE,  stdout |-> StdoutOk, stderr |-> <<>>],
      [success |-> TRUE,  stdout |-> <<>>,     stderr |-> <<>>],
      [success |-> FALSE, stdout |-> <<>>,     stderr |-> StderrClosed],
      [success |-> FALSE, stdout |-> <<>>,     stderr |-> <<>>] }

Clients == {"client_1", "10.0.0.7"}
\* the sessions that send POST /api/execute and GET /api/device-status here
ActiveClients == {"client_1"}
Binaries == {"adb1", "adb"}

(***************************************************************************)
(* Bounds                                                                  *)
(***************************************************************************)
MaxNotifications == 1
StartClock == 50000
TickMs == 1500
MaxExecTicks == 2
StatusTickMs == 10000
MaxStatusTicks == 1
MaxLaunches == 3

\* the POST /api/execute requests in flight
ExecIds == {"e1"}

(***************************************************************************)
(* Program constants                                                       *)
(***************************************************************************)
CACHE_TTL == 3000
DETAIL_TTL == 10000
NotificationsKept == 10

VARIABLES
    now,                  \* Date.now()
    config,               \* config.adbCommand, the process-wide binary
    userConfigs,          \* Map clientId -> {adbCommand, serial}
    globalNotifications,  \* the last notifications
    deviceCache,          \* {devices, timestamp}
    executes,             \* the POST /api/execute requests
    rootStatus,           \* global.rootStatus: key -> unset | 'pending' | 'done'
    rootTasks,            \* the background root chains: per key, how many are at each command
    rootIssued,           \* how many `root` commands were issued for each key
    detailCache,          \* Map key -> {data, timestamp}
    stickySwVersions,     \* global.stickySwVersions: key -> version
    statuses,             \* the GET /api/device-status evaluations
    dltProxies,           \* Map clientId -> {proxy, serial, publicPort, internalPort, binary}
    usedDltPorts,         \* Set of the public ports of the registered bridges
    listeners,            \* the proxy servers that are listening
    forwards,             \* the forwards of the adb server: local port -> device
    occupied,             \* the ports other programs of the host listen on
    dlts,                 \* the launch-dlt and stop-dlt requests
    launched              \* how many launch-dlt requests have arrived

execVars == <<deviceCache, executes>>
statusVars == <<rootStatus, rootTasks, rootIssued, detailCache, stickySwVersions, statuses>>
dltVars == <<dltProxies, usedDltPorts, listeners, forwards, occupied, dlts, launched>>
vars == <<now, config, userConfigs, globalNotifications, deviceCache, executes,
          rootStatus, rootTasks, rootIssued, detailCache, stickySwVersions, statuses,
          dltProxies, usedDltPorts, listeners, forwards, occupied, dlts, launched>>

\* userConfig.lastKnownDevices is written (lines 360, 395) and read nowhere: it is not kept
NoConfig == [set |-> FALSE, adbCommand |-> "", serial |-> <<>>]
NoDevice == [id |-> <<>>, status |-> <<>>]
NoCommandLine == [binary |-> "", serial |-> <<>>, args |-> <<>>]
NoResponse ==
    [status |-> 0, success |-> FALSE, output |-> <<>>, error |-> "", errorText |-> <<>>,
     disconnectedSerial |-> <<>>, availableDevices |-> <<>>, targetUsed |-> <<>>]
IdleExecute ==
    [pc |-> "idle", client |-> "", command |-> <<>>, targetSerial |-> <<>>, binary |-> "",
     startNow |-> 0, devices |-> <<>>, savedSerial |-> <<>>, requestedSerial |-> <<>>,
     targetDevice |-> NoDevice, full |-> NoCommandLine, stdout |-> <<>>,
     res |-> NoResponse]

(***************************************************************************)
(* Helpers of the server                                                   *)
(***************************************************************************)
\* getAdbBinary: the session's binary, else the global one
getAdbBinary(id) ==
    IF userConfigs[id].set /\ userConfigs[id].adbCommand # ""
    THEN userConfigs[id].adbCommand
    ELSE config

\* addGlobalNotification: push, keep the last 10
addGlobalNotification(list, notif) ==
    LET pushed == Append(list, notif)
    IN  IF Len(pushed) > NotificationsKept THEN Tail(pushed) ELSE pushed

\* the loop of getCachedDevices over the lines of `devices`
RECURSIVE parseLines(_, _)
parseLines(lines, listStarted) ==
    IF lines = <<>> THEN <<>>
    ELSE LET raw == trim(Head(lines))
             rest == Tail(lines)
         IN  IF raw = <<>> \/ includes(toLowerCase(raw), STR_daemon)
             THEN parseLines(rest, listStarted)
             ELSE IF includes(toLowerCase(raw), STR_list_header)
             THEN parseLines(rest, TRUE)
             ELSE IF listStarted
             THEN LET parts == splitBlank(raw)
                  IN  IF Len(parts) >= 2
                      THEN <<[id |-> trim(parts[1]), status |-> trim(parts[2])]>>
                               \o parseLines(rest, listStarted)
                      ELSE parseLines(rest, listStarted)
             ELSE parseLines(rest, listStarted)

parseDevices(stdout) ==
    IF stdout = <<>> THEN <<>> ELSE parseLines(splitLines(stdout), FALSE)

\* parseDevices over the outputs the model draws from, computed once
parsedDevices == [stdout \in DevicesOutputs |-> parseDevices(stdout)]

\* d.status.toLowerCase() === 'device'
isReady(d) == toLowerCase(d.status) = STR_device

\* a filter that lets every enumerated device through
readyDevicesUnfiltered(devices) == devices

\* devices.filter(d => d.status.toLowerCase() === 'device')
readyDevices(devices) == SelectSeq(devices, isReady)

\* list.map(d => d.id)
mapIds(list) == [i \in 1..Len(list) |-> list[i].id]

\* (targetSerial || userConfig?.serial || '').trim().toLowerCase()
requestedSerialOf(targetSerial, savedSerial) ==
    toLowerCase(trim(IF targetSerial # <<>> THEN targetSerial ELSE savedSerial))

\* devices.find(d => d.id.toLowerCase() === requestedSerial && ready), or NoDevice
findTarget(devices, requestedSerial) ==
    LET hits == SelectSeq(devices,
                    LAMBDA d : toLowerCase(d.id) = requestedSerial /\ isReady(d))
    IN  IF hits = <<>> THEN NoDevice ELSE Head(hits)

\* command.trim().replace(/^(adb1?(\.exe)?\s+)/i, '')
sanitize(command) ==
    LET t == trim(command)
        l == toLowerCase(t)
        afterAdb == IF startsWith(l, STR_adb) THEN 3 ELSE 0
        afterOne == IF afterAdb = 3 /\ Len(l) >= 4 /\ l[4] = "1" THEN 4 ELSE afterAdb
        afterExe == IF afterOne > 0 /\ startsWith(SubSeq(l, afterOne + 1, Len(l)), STR_exe)
                    THEN afterOne + 4 ELSE afterOne
    IN  IF afterExe > 0 /\ Len(l) > afterExe /\ IsWhitespace(l[afterExe + 1])
        THEN trimStart(SubSeq(t, afterExe + 1, Len(t)))
        ELSE t

\* [\w-]
IsWordChar(c) ==
    \/ c \in Digits \/ c \in Range(UpperAlpha) \/ c \in Range(LowerAlpha)
    \/ c = "_" \/ c = "-"

RECURSIVE takeWhileDigit(_)
takeWhileDigit(s) ==
    IF s # <<>> /\ Head(s) \in Digits THEN <<Head(s)>> \o takeWhileDigit(Tail(s)) ELSE <<>>

RECURSIVE takeWhileWord(_)
takeWhileWord(s) ==
    IF s # <<>> /\ IsWordChar(Head(s)) THEN <<Head(s)>> \o takeWhileWord(Tail(s)) ELSE <<>>

\* sanitized.match(/factorySetimei\s+(\d+|[\w-]+)/): group 1 of the first match, or <<>>
imeiMatch(sanitized) ==
    LET n == Len(STR_factorySetimei)
        At(i) == LET tl == SubSeq(sanitized, i + n, Len(sanitized))
                     arg == trimStart(tl)
                 IN  IF SubSeq(sanitized, i, i + n - 1) = STR_factorySetimei
                        /\ tl # <<>> /\ IsWhitespace(Head(tl))
                        /\ arg # <<>> /\ IsWordChar(Head(arg))
                     THEN IF Head(arg) \in Digits THEN takeWhileDigit(arg)
                          ELSE takeWhileWord(arg)
                     ELSE <<>>
        starts == {i \in 1..(Len(sanitized) - n + 1) : At(i) # <<>>}
    IN  IF starts = {} THEN <<>>
        ELSE At(CHOOSE i \in starts : \A j \in starts : i <= j)

\* an output that leaves the serial prefix out
outputOfUnprefixed(result, serial) ==
    IF result.stdout # <<>> THEN result.stdout
    ELSE IF result.stderr # <<>> THEN result.stderr
    ELSE IF result.success THEN STR_Success ELSE STR_Failed

\* result.stdout || result.stderr || (result.success ? 'Success' : 'Failed'),
\* then `[${serial}] ${output}`
outputOf(result, serial) ==
    LET output == IF result.stdout # <<>> THEN result.stdout
                  ELSE IF result.stderr # <<>> THEN result.stderr
                  ELSE IF result.success THEN STR_Success ELSE STR_Failed
    IN  <<"[">> \o serial \o <<"]", " ">> \o output


(***************************************************************************)
(* GET /api/device-status: data                                            *)
(***************************************************************************)
STR_shell == <<"s","h","e","l","l">>
STR_WAVE == <<"W","A","V","E">>
STR_Unknown == <<"U","n","k","n","o","w","n">>
STR_Absent == <<"A","b","s","e","n","t">>
STR_Ready == <<"R","e","a","d","y">>
STR_NotReady == <<"N","o","t"," ","R","e","a","d","y">>
STR_State == <<"S","t","a","t","e"," ">>
STR_BmwFactory == <<"B","M","W"," ","(","F","a","c","t","o","r","y",")">>
STR_RADIO_ON == <<"R","A","D","I","O","_","O","N">>
STR_InService == <<"I","n"," ","S","e","r","v","i","c","e">>
STR_LimitedService == <<"L","i","m","i","t","e","d"," ","S","e","r","v","i","c","e">>
STR_dash == <<"-">>
DigitChars == <<"0","1","2","3","4","5","6","7","8","9">>

\* the serials `devices` can list, and the keys `${binary}_${serial}`
DeviceIds == {ABC123, XYZ999, GONE1}
Keys == Binaries \X DeviceIds
KeyOf(binary, serial) == <<binary, serial>>

\* the GET /api/device-status evaluations in flight
StatusIds == {1, 2}

\* what `shell whoami` can print; a failed or timed-out probe prints nothing
WhoamiOutputs == { STR_root, STR_shell, <<>> }

\* what `shell cat etc/version` can print
VersionWave == <<"W","A","V","E","_","2","4","0","5">>
VersionOutputs == { <<>>, VersionWave }

\* what the five parallel queries can yield: the text each regular expression
\* captures (<<>> when the query failed or its output does not match), and the
\* output of the radio query
RadioOnBmw == <<"R","a","d","i","o"," ","S","t","a","t","e"," ",":","-",">"," ","2"," ","(","R","A","D","I","O"," ","O","N",")">>
QNothing ==
    [sim |-> <<>>, imei |-> <<>>, voice |-> <<>>, data |-> <<>>, nation |-> <<>>,
     region |-> <<>>, radio |-> <<>>]
QFull ==
    [sim |-> <<"5">>, imei |-> <<"3","5","7">>, voice |-> <<"0">>, data |-> <<"0">>,
     nation |-> <<"8","2">>, region |-> <<"K","R">>, radio |-> RadioOnBmw]
QueryResults == { QNothing, QFull }

\* what `telephony getimei 0` can yield: the captured IMEI; here the second slot
\* gives none either
Imei0Results == { <<>> }

\* the extraInfo every evaluation starts from (lines 467-471); swVersion is unset
Baseline ==
    [imei |-> STR_dash, serviceState |-> STR_dash, region |-> STR_dash,
     isServicePass |-> FALSE, radioOn |-> FALSE, simState |-> -1,
     simStateText |-> STR_Unknown, swVersion |-> <<>>]

NoEntry == [set |-> FALSE, data |-> Baseline, timestamp |-> 0]
NoTask == [root |-> 0, wait |-> 0]
\* global.staleCacheCount (lines 598-609) only paces a log line and is not kept.
\* res.json: connected, deviceCount, extraInfo, adbUsed (binary and target); queried and
\* fetched record whether the evaluation ran the diagnostic queries and what they gave,
\* known the keys that had a snapshot when the request arrived, rooted the keys the
\* evaluation started a root chain for
NoStatusResponse ==
    [sent |-> FALSE, fromCache |-> FALSE, connected |-> FALSE, deviceCount |-> 0,
     extraInfo |-> Baseline, binary |-> "", target |-> <<>>, queried |-> FALSE,
     fetched |-> Baseline, rooted |-> {}]
IdleStatus ==
    [pc |-> "idle", client |-> "", binary |-> "", devices |-> <<>>, idx |-> 0,
     savedSerial |-> <<>>, isConnected |-> FALSE, activeTarget |-> <<>>,
     cached |-> NoEntry, extraInfo |-> Baseline, known |-> {}, rooted |-> {},
     res |-> NoStatusResponse]

\* parseInt of a string of digits
RECURSIVE parseInt(_)
parseInt(ds) ==
    IF ds = <<>> THEN 0
    ELSE 10 * parseInt(SubSeq(ds, 1, Len(ds) - 1))
            + (CHOOSE v \in 0..9 : DigitChars[v + 1] = ds[Len(ds)])

\* `${n}` of a number n >= 0
RECURSIVE numberToString(_)
numberToString(n) ==
    IF n < 10 THEN <<DigitChars[n + 1]>>
    ELSE numberToString(n \div 10) \o <<DigitChars[(n % 10) + 1]>>

\* states[simState] || `State ${simState}` (lines 540-541)
simStateTextOf(n) ==
    CASE n = 0 -> STR_Unknown
      [] n = 1 -> STR_Absent
      [] n = 5 -> STR_Ready
      [] n = 6 -> STR_NotReady
      [] OTHER -> STR_State \o numberToString(n)

\* s matches, at its start, the literals of parts with \s* between them
RECURSIVE matchesParts(_, _)
matchesParts(s, parts) ==
    IF parts = <<>> THEN TRUE
    ELSE /\ startsWith(s, Head(parts))
         /\ matchesParts(trimStart(SubSeq(s, Len(Head(parts)) + 1, Len(s))), Tail(parts))

\* /Result\s*:\s*true/i.test(out)
testResultTrue(out) ==
    \E i \in 1..Len(out) :
        matchesParts(SubSeq(toLowerCase(out), i, Len(out)),
                     << <<"r","e","s","u","l","t">>, <<":">>, <<"t","r","u","e">> >>)

\* /Radio State\s*:->\s*[12]/i.test(out)
testRadioState12(out) ==
    \E i \in 1..Len(out) :
        \E d \in {"1", "2"} :
            matchesParts(SubSeq(toLowerCase(out), i, Len(out)),
                         << <<"r","a","d","i","o"," ","s","t","a","t","e">>, <<":","-",">">>, <<d>> >>)

\* lines 577-583
radioOnOf(out) ==
    out # <<>> /\ (includes(out, STR_RADIO_ON) \/ testResultTrue(out) \/ testRadioState12(out))

\* lines 563-574
regionOf(q, isBmw) ==
    IF q.region # <<>> /\ q.nation # <<>> THEN q.region \o <<" ", "(">> \o q.nation \o <<")">>
    ELSE IF q.region # <<>> THEN q.region
    ELSE IF q.nation # <<>> THEN q.nation
    ELSE IF isBmw THEN STR_BmwFactory
    ELSE STR_dash

\* lines 536-583 but for the IMEI: extraInfo after the five answers were parsed
parsedInfo(info, q, isBmw) ==
    LET hasService == q.voice # <<>> /\ q.data # <<>>
        pass == q.voice = <<"0">> /\ q.data = <<"0">>
    IN  [info EXCEPT
            !.simState = IF q.sim # <<>> THEN parseInt(q.sim) ELSE @,
            !.simStateText = IF q.sim # <<>> THEN simStateTextOf(parseInt(q.sim)) ELSE @,
            !.isServicePass = IF hasService THEN pass ELSE @,
            !.serviceState = IF hasService
                             THEN (IF pass THEN STR_InService ELSE STR_LimitedService)
                             ELSE @,
            !.region = regionOf(q, isBmw),
            !.radioOn = IF q.radio # <<>> THEN radioOnOf(q.radio) ELSE @]

\* a success test that counts every field of the snapshot, the region and the
\* software version included
fetchSuccessAnyField(info) ==
    \/ info.imei # STR_dash \/ info.simState # -1
    \/ info.serviceState # STR_dash \/ info.radioOn
    \/ info.region # STR_dash \/ info.swVersion \notin {<<>>, STR_Unknown}

\* lines 586-587
fetchSuccess(info) ==
    \/ info.imei # STR_dash \/ info.simState # -1
    \/ info.serviceState # STR_dash \/ info.radioOn

(***************************************************************************)
(* The DLT bridges: data                                                   *)
(***************************************************************************)
\* parseInt(dltPort) || 3490 (line 960), tryPort + 1000 (line 1012), the ten
\* candidates of line 1003 and the highest port (lines 975, 1005)
DEFAULT_DLT_PORT == 3490
InternalOffset == 1000
MaxAttempts == 10
MaxPort == 65535

\* the dltPort of a request: 0 stands for a field that is absent or not a number
DltPortInputs == {0, 3491}
\* the device each session selects
DltSelections == { <<"client_1", ABC123>>, <<"10.0.0.7", XYZ999>> }
\* the request slots; a launch-dlt takes one of LaunchIds
DltIds == {1, 2}
LaunchIds == {1}

\* every port a candidate can be, and the ports other programs hold: none, the
\* default port, or all of them
TryPorts == DEFAULT_DLT_PORT .. (3491 + MaxAttempts - 1)
OccupiedSets == { {}, {DEFAULT_DLT_PORT}, TryPorts }

NoBridge ==
    [set |-> FALSE, proxy |-> <<>>, serial |-> <<>>, publicPort |-> 0,
     internalPort |-> 0, binary |-> ""]

NoDltResponse ==
    [sent |-> FALSE, status |-> 0, success |-> FALSE, port |-> 0,
     requestedPort |-> 0, autoAssigned |-> FALSE, cleaned |-> 0,
     contested |-> FALSE]

\* a request slot: pc is "idle", the await the handler is suspended at, or
\* "responded"; contested records that the requested port was the public port
\* of another session's bridge for another device when the request arrived
IdleDlt ==
    [pc |-> "idle", client |-> "", serial |-> <<>>, binary |-> "",
     requestedPort |-> 0, attempt |-> 0, entry |-> NoBridge, contested |-> FALSE,
     res |-> NoDltResponse]

(***************************************************************************)
(* Init: the server after start-up                                         *)
(***************************************************************************)
\* the server's own state after start-up
ServerInit ==
    /\ now = StartClock
    /\ config = "adb1"
    /\ userConfigs = [c \in Clients |-> NoConfig]
    /\ globalNotifications = <<>>
    /\ deviceCache = [devices |-> <<>>, timestamp |-> 0]
    /\ executes = [r \in ExecIds |-> IdleExecute]
    /\ rootStatus = [k \in Keys |-> "unknown"]
    /\ rootTasks = [k \in Keys |-> NoTask]
    /\ rootIssued = [k \in Keys |-> 0]
    /\ detailCache = [k \in Keys |-> NoEntry]
    /\ stickySwVersions = [k \in Keys |-> <<>>]
    /\ statuses = [e \in StatusIds |-> IdleStatus]
    /\ dltProxies = [c \in Clients |-> NoBridge]
    /\ usedDltPorts = {}
    /\ listeners = {}
    /\ forwards = [p \in {t + InternalOffset : t \in TryPorts} |-> <<>>]
    /\ dlts = [r \in DltIds |-> IdleDlt]
    /\ launched = 0

\* no other program of the host holds a candidate port
Init == ServerInit /\ occupied = {}

\* the host as the bridges can find it: the candidate ports free, or all held
DltInit == ServerInit /\ occupied \in OccupiedSets

\* time passes
Tick(step, limit) ==
    /\ now + step <= StartClock + limit * step
    /\ now' = now + step

ExecTick ==
    /\ Tick(TickMs, MaxExecTicks)
    /\ UNCHANGED <<config, userConfigs, globalNotifications, deviceCache, executes>>
    /\ UNCHANGED <<statusVars, dltVars>>

(***************************************************************************)
(* POST /api/config                                                        *)
(***************************************************************************)
\* adbCommand = "" and hasSerial = FALSE stand for the fields being absent
PostConfig(id, adbCommand, hasSerial, serial) ==
    LET current == userConfigs[id]
        changes == adbCommand # "" /\ adbCommand # config
        global == IF changes THEN adbCommand ELSE config
        next == [set |-> TRUE, adbCommand |-> global,
                 serial |-> IF hasSerial THEN serial ELSE current.serial]
    IN  /\ changes => Len(globalNotifications) < MaxNotifications
        /\ config' = global
        /\ globalNotifications' =
              IF changes
              THEN addGlobalNotification(globalNotifications,
                       [type |-> "ADB_CHANGE", user |-> id, serial |-> <<>>, imei |-> <<>>])
              ELSE globalNotifications
        /\ userConfigs' = [userConfigs EXCEPT ![id] = next]

ExecPostConfig ==
    \E id \in ActiveClients, adbCommand \in {""}, hasSerial \in BOOLEAN,
       serial \in ConfigSerials :
        /\ hasSerial \/ serial = <<>>
        /\ PostConfig(id, adbCommand, hasSerial, serial)
        /\ UNCHANGED <<now, deviceCache, executes>>
        /\ UNCHANGED <<statusVars, dltVars>>

(***************************************************************************)
(* getCachedDevices                                                        *)
(***************************************************************************)
\* a cache that serves its list, empty or not, while it is younger than CACHE_TTL
cacheIsFreshEvenEmpty(cache, at) == at - cache.timestamp < CACHE_TTL

\* the cached list is served while it is younger than CACHE_TTL and not empty
cacheIsFresh(cache, at) == at - cache.timestamp < CACHE_TTL /\ Len(cache.devices) > 0

\* the cache after `<binary> devices` printed stdout, for a call made at startNow
refreshedCache(stdout, startNow) == [devices |-> parseDevices(stdout), timestamp |-> startNow]

(***************************************************************************)
(* POST /api/execute                                                       *)
(***************************************************************************)
\* lines 689-696: up to the await on getCachedDevices
ExecuteStart(r, id, command, targetSerial) ==
    /\ executes[r].pc = "idle"
    /\ IF command = <<>>
       THEN executes' = [executes EXCEPT ![r] =
                [@ EXCEPT !.pc = "responded", !.client = id,
                          !.res = [NoResponse EXCEPT !.status = 400, !.error = "No command"]]]
       ELSE executes' = [executes EXCEPT ![r] =
                [@ EXCEPT !.pc = IF cacheIsFresh(deviceCache, now) THEN "resolve"
                                 ELSE "awaitDevices",
                          !.client = id, !.command = command,
                          !.targetSerial = targetSerial,
                          !.binary = getAdbBinary(id), !.startNow = now,
                          !.devices = IF cacheIsFresh(deviceCache, now)
                                      THEN deviceCache.devices ELSE <<>>]]
    /\ UNCHANGED <<now, config, userConfigs, globalNotifications, deviceCache>>
    /\ UNCHANGED <<statusVars, dltVars>>

\* getCachedDevices, lines 232-253: `<binary> devices` has printed stdout
ExecuteDevicesReturn(r, stdout) ==
    /\ executes[r].pc = "awaitDevices"
    /\ deviceCache' = refreshedCache(stdout, executes[r].startNow)
    /\ executes' = [executes EXCEPT ![r] =
            [@ EXCEPT !.pc = "resolve", !.devices = parseDevices(stdout)]]
    /\ UNCHANGED <<now, config, userConfigs, globalNotifications>>
    /\ UNCHANGED <<statusVars, dltVars>>

\* the response of a request that names no usable target, or NoResponse
targetingError(requestedSerial, targetDevice, ready) ==
    IF requestedSerial # <<>>
    THEN IF targetDevice = NoDevice
         THEN [NoResponse EXCEPT !.status = 200, !.error = "DEVICE_DISCONNECTED",
                  !.output = <<"D","e","v","i","c","e"," ","'">> \o requestedSerial
                                \o <<"'"," ","n","o","t"," ","c","o","n","n","e","c","t","e","d">>,
                  !.disconnectedSerial = requestedSerial,
                  !.availableDevices = mapIds(ready)]
         ELSE NoResponse
    ELSE IF Len(ready) = 0
         THEN [NoResponse EXCEPT !.status = 200, !.error = "NO_DEVICE"]
         ELSE IF Len(ready) = 1 THEN NoResponse
         ELSE [NoResponse EXCEPT !.status = 200, !.error = "MULTIPLE_DEVICES",
                  !.availableDevices = mapIds(ready)]

\* the device lines 706-732 choose
chosenDevice(devices, requestedSerial) ==
    IF requestedSerial # <<>> THEN findTarget(devices, requestedSerial)
    ELSE IF Len(readyDevices(devices)) = 1 THEN readyDevices(devices)[1]
    ELSE NoDevice

\* lines 697-741: resolve the target, answer an error or start the command
ExecuteResolve(r) ==
    LET e == executes[r]
        savedSerial == IF userConfigs[e.client].set THEN userConfigs[e.client].serial ELSE <<>>
        requestedSerial == requestedSerialOf(e.targetSerial, savedSerial)
        ready == readyDevices(e.devices)
        targetDevice == chosenDevice(e.devices, requestedSerial)
        error == targetingError(requestedSerial, targetDevice, ready)
    IN  /\ e.pc = "resolve"
        /\ executes' = [executes EXCEPT ![r] =
              IF error # NoResponse
              THEN [e EXCEPT !.pc = "responded", !.savedSerial = savedSerial,
                             !.requestedSerial = requestedSerial, !.res = error]
              ELSE [e EXCEPT !.pc = "awaitExec", !.savedSerial = savedSerial,
                             !.requestedSerial = requestedSerial,
                             !.targetDevice = targetDevice,
                             !.full = [binary |-> e.binary, serial |-> targetDevice.id,
                                       args |-> sanitize(e.command)]]]
        /\ UNCHANGED <<now, config, userConfigs, globalNotifications, deviceCache>>
        /\ UNCHANGED <<statusVars, dltVars>>

\* lines 741-765: the command has finished
ExecuteReturn(r, result) ==
    LET e == executes[r]
        imei == imeiMatch(e.full.args)
        notify == result.success /\ includes(e.full.args, STR_factorySetimei) /\ imei # <<>>
    IN  /\ e.pc = "awaitExec"
        /\ notify => Len(globalNotifications) < MaxNotifications
        /\ globalNotifications' =
              IF notify
              THEN addGlobalNotification(globalNotifications,
                       [type |-> "IMEI_CHANGE", user |-> e.client,
                        serial |-> e.targetDevice.id, imei |-> imei])
              ELSE globalNotifications
        /\ executes' = [executes EXCEPT ![r] =
              [e EXCEPT !.pc = "responded", !.stdout = result.stdout,
                        !.res = [NoResponse EXCEPT
                                    !.status = 200, !.success = result.success,
                                    !.output = outputOf(result, e.targetDevice.id),
                                    !.errorText = result.stderr,
                                    !.targetUsed = e.targetDevice.id]]]
        /\ UNCHANGED <<now, config, userConfigs, deviceCache>>
        /\ UNCHANGED <<statusVars, dltVars>>

\* the response has been sent: the request is over
ExecuteFinish(r) ==
    /\ executes[r].pc = "responded"
    /\ executes' = [executes EXCEPT ![r] = IdleExecute]
    /\ UNCHANGED <<now, config, userConfigs, globalNotifications, deviceCache>>
    /\ UNCHANGED <<statusVars, dltVars>>

ExecNext ==
    \/ ExecTick
    \/ ExecPostConfig
    \/ \E r \in ExecIds, id \in ActiveClients, command \in Commands, targetSerial \in TargetSerials :
          ExecuteStart(r, id, command, targetSerial)
    \/ \E r \in ExecIds, stdout \in DevicesOutputs : ExecuteDevicesReturn(r, stdout)
    \/ \E r \in ExecIds : ExecuteResolve(r)
    \/ \E r \in ExecIds, result \in ExecResults : ExecuteReturn(r, result)
    \/ \E r \in ExecIds : ExecuteFinish(r)

ExecSpec == Init /\ [][ExecNext]_vars


(***************************************************************************)
(* Properties of POST /api/execute                                         *)
(***************************************************************************)
\* the serial a request asks for, as it was selected: the explicit targetSerial
\* when one is given (a blank one names nothing), else the session's saved one
RequestedRaw(e) == IF trim(e.targetSerial) # <<>> THEN e.targetSerial ELSE e.savedSerial

\* a serial is requested
Requested(e) == trim(RequestedRaw(e)) # <<>>

\* the serials of the devices whose status is `device`, in enumeration order
ReadySerials(devices) == mapIds(SelectSeq(devices, LAMBDA d : d.status = STR_device))

\* serial S names the device id, whatever the case and the blanks around S
Names(S, id) == toLowerCase(trim(S)) = toLowerCase(id)

AmongReady(S, devices) == \E i \in 1..Len(ReadySerials(devices)) : Names(S, ReadySerials(devices)[i])

\* the request has read the session and chosen its target
Resolved(e) == e.pc = "awaitExec" \/ (e.pc = "responded" /\ e.res.status = 200)

\* C1: a request whose requested serial S is not among the ready devices is
\* answered DEVICE_DISCONNECTED, with disconnectedSerial = S as it was selected
\* and availableDevices = the ready serials.
C1_DisconnectedCarriesSelectedSerial ==
    \A r \in ExecIds :
        LET e == executes[r]
            S == RequestedRaw(e)
        IN  (Resolved(e) /\ Requested(e) /\ ~AmongReady(S, e.devices))
                => /\ e.pc = "responded"
                   /\ ~e.res.success
                   /\ e.res.error = "DEVICE_DISCONNECTED"
                   /\ e.res.disconnectedSerial = S
                   /\ e.res.availableDevices = ReadySerials(e.devices)

\* C2: no silent fallback. A request with a non-empty requested serial that
\* names no ready device runs no command, and a command run while a serial is
\* requested runs against the device that serial names.
C2_NoSilentFallback ==
    \A r \in ExecIds :
        LET e == executes[r]
            S == RequestedRaw(e)
        IN  (Resolved(e) /\ Requested(e))
                => /\ ~AmongReady(S, e.devices) => e.full = NoCommandLine
                   /\ e.full # NoCommandLine => Names(S, e.full.serial)

\* C3: two or more ready devices and neither an explicit nor a saved serial:
\* MULTIPLE_DEVICES listing exactly the ready serials, and no command is run.
C3_MultipleDevicesListsReady ==
    \A r \in ExecIds :
        LET e == executes[r]
        IN  (Resolved(e) /\ e.targetSerial = <<>> /\ e.savedSerial = <<>>
                /\ Len(ReadySerials(e.devices)) >= 2)
                => /\ e.pc = "responded"
                   /\ ~e.res.success
                   /\ e.res.error = "MULTIPLE_DEVICES"
                   /\ e.res.availableDevices = ReadySerials(e.devices)
                   /\ e.full = NoCommandLine

C3_Witness ==
    \E r \in ExecIds :
        /\ executes[r].pc = "responded"
        /\ executes[r].res.error = "MULTIPLE_DEVICES"
        /\ executes[r].targetSerial = <<>> /\ executes[r].savedSerial = <<>>
        /\ Len(ReadySerials(executes[r].devices)) = 2
        /\ Len(executes[r].devices) = 3

\* the one ready device of a list, no serial being asked for
OnlyReady(e) ==
    /\ Resolved(e) /\ e.targetSerial = <<>> /\ e.savedSerial = <<>>
    /\ Len(ReadySerials(e.devices)) = 1

Bracketed(id) == <<"[">> \o id \o <<"]", " ">>

\* C4 as stated: with exactly one ready device and no serial, that device is
\* the target and the output is the executor's stdout prefixed with "[<id>] ".
C4_OutputIsPrefixedStdout ==
    \A r \in ExecIds :
        LET e == executes[r]
            id == ReadySerials(e.devices)[1]
        IN  (OnlyReady(e) /\ e.pc = "responded")
                => /\ e.res.targetUsed = id
                   /\ e.res.output = Bracketed(id) \o e.stdout

\* C4, amended: that device is the target; the output is "[<id>] " followed by
\* the executor's stdout when it is not empty, else by its stderr, else by
\* "Success" or "Failed" as the command succeeded or not.
C4_OutputIsPrefixedResult ==
    \A r \in ExecIds :
        LET e == executes[r]
            id == ReadySerials(e.devices)[1]
        IN  OnlyReady(e)
                => /\ e.full.serial = id
                   /\ e.pc = "responded" =>
                        /\ e.res.targetUsed = id
                        /\ e.stdout # <<>> => e.res.output = Bracketed(id) \o e.stdout
                        /\ (e.stdout = <<>> /\ e.res.errorText # <<>>)
                              => e.res.output = Bracketed(id) \o e.res.errorText
                        /\ (e.stdout = <<>> /\ e.res.errorText = <<>>)
                              => e.res.output = Bracketed(id) \o
                                    (IF e.res.success THEN STR_Success ELSE STR_Failed)

C4_Witness ==
    \E r \in ExecIds :
        /\ OnlyReady(executes[r]) /\ executes[r].pc = "responded"
        /\ Len(executes[r].devices) = 2
        /\ executes[r].res.targetUsed = ABC123
        /\ executes[r].res.output = Bracketed(ABC123) \o StdoutOk


(***************************************************************************)
(* GET /api/device-status                                                  *)
(***************************************************************************)
\* what `devices` can print while the status is polled
StatusDevicesOutputs == { HeaderLine, DevicesMixed }

\* the serials a browser saves while the status is polled
StatusConfigSerials == { <<" ">> \o XYZ999 }

\* the first device at or after position from whose state is neither 'done'
\* nor 'pending' (lines 426-431), or 0
firstUnset(ready, binary, from, rs) ==
    LET unset == { j \in from..Len(ready) : rs[KeyOf(binary, ready[j].id)] = "unknown" }
    IN  IF unset = {} THEN 0 ELSE CHOOSE j \in unset : \A i \in unset : j <= i

\* res.json of lines 483-488 (fromCache) and of lines 613-620; the locals of the
\* evaluation die with it
respond(rec, extraInfo, fromCache, queried) ==
    [IdleStatus EXCEPT
        !.pc = "responded", !.client = rec.client,
        !.res = [sent |-> TRUE, fromCache |-> fromCache,
                 connected |-> rec.isConnected,
                 deviceCount |-> Len(readyDevices(rec.devices)),
                 extraInfo |-> extraInfo,
                 binary |-> rec.binary,
                 target |-> rec.activeTarget,
                 queried |-> queried,
                 fetched |-> IF queried THEN rec.extraInfo ELSE Baseline,
                 rooted |-> rec.rooted]]

\* lines 467-489: after the loop, up to the response or the await on etc/version
afterLoop(rec, rs) ==
    LET rootKey == KeyOf(rec.binary, rec.activeTarget)
        isRooting == rec.activeTarget # <<>> /\ rs[rootKey] = "pending"
        cached == IF rec.activeTarget # <<>> THEN detailCache[rootKey] ELSE NoEntry
    IN  IF rec.isConnected /\ rec.activeTarget # <<>> /\ ~isRooting
        THEN IF cached.set /\ now - cached.timestamp < DETAIL_TTL
             THEN respond(rec, cached.data, TRUE, FALSE)
             ELSE [rec EXCEPT !.pc = "awaitVersion", !.idx = 0, !.cached = cached]
        ELSE respond(rec, Baseline, FALSE, FALSE)

\* lines 426-435: the loop from position from, up to its next await
continueLoop(rec, from, rs) ==
    LET j == firstUnset(readyDevices(rec.devices), rec.binary, from, rs)
    IN  IF j # 0 THEN [rec EXCEPT !.pc = "awaitWhoami", !.idx = j]
        ELSE afterLoop(rec, rs)

\* line 446: `root` is started
spawnRoot(chains) == [chains EXCEPT !.root = @ + 1]

\* an evaluation that stays where it is until the chain it started has ended
parkedUntilChainEnds(rec, from, rs) == [rec EXCEPT !.pc = "awaitRoot", !.idx = from]

\* lines 446-465: the chain is not awaited, the loop goes on at once
afterSpawn(rec, from, rs) == continueLoop(rec, from, rs)

\* a probe after which the state is 'done' whoever the user is
rootStatusAfterWhoamiDone(user) == "done"

\* lines 438-443
rootStatusAfterWhoami(user) == IF user = STR_root THEN "done" ELSE "pending"

\* a chain that leaves the state alone when its last command failed
rootStatusAfterFailedChain(ok) == IF ok THEN "done" ELSE "pending"

\* lines 451-459: 'done' whether the chain resolved or rejected
rootStatusAfterChain(ok) == "done"

\* an evaluation that serves what it fetched, whatever it is
noFallback(cached, info) == info

\* lines 600-602: the last good snapshot instead of blanks
staleFallback(cached, info) == IF cached.set THEN cached.data ELSE info

\* lines 366-371: up to the await on `devices`
StatusStart(e, id) ==
    /\ statuses[e].pc = "idle"
    /\ statuses' = [statuses EXCEPT ![e] =
            [@ EXCEPT !.pc = "awaitDevices", !.client = id, !.binary = getAdbBinary(id),
                      !.known = { k \in Keys : detailCache[k].set }]]
    /\ UNCHANGED <<now, config, userConfigs, globalNotifications, execVars, dltVars, rootStatus,
                   rootTasks, rootIssued, detailCache, stickySwVersions>>

\* lines 372-435 (or to the response): `devices` has printed stdout
StatusDevicesReturn(e, stdout) ==
    LET rec == statuses[e]
        devices == parsedDevices[stdout]
        userConfig == IF userConfigs[rec.client].set THEN userConfigs[rec.client]
                      ELSE [NoConfig EXCEPT !.set = TRUE, !.adbCommand = rec.binary]
        savedSerial == toLowerCase(trim(userConfig.serial))
        ready == readyDevices(devices)
        matches == SelectSeq(devices, LAMBDA d : toLowerCase(d.id) = savedSerial)
        bySerial == savedSerial # <<>> /\ matches # <<>> /\ isReady(matches[1])
        auto == ~bySerial /\ savedSerial = <<>> /\ Len(ready) > 0
        started == [rec EXCEPT !.devices = devices, !.savedSerial = savedSerial,
                               !.isConnected = bySerial \/ auto,
                               !.activeTarget = IF bySerial THEN matches[1].id
                                                ELSE IF auto THEN ready[1].id
                                                ELSE <<>>]
    IN  /\ rec.pc = "awaitDevices"
        /\ userConfigs' = [userConfigs EXCEPT ![rec.client] = userConfig]
        /\ statuses' = [statuses EXCEPT ![e] = continueLoop(started, 1, rootStatus)]
        /\ UNCHANGED <<now, config, globalNotifications, execVars, dltVars, rootStatus, rootTasks,
                       rootIssued, detailCache, stickySwVersions>>

\* lines 436-460 and on to the next await: `shell whoami` has printed stdout
StatusWhoamiReturn(e, stdout) ==
    LET rec == statuses[e]
        d == readyDevices(rec.devices)[rec.idx]
        serialKey == KeyOf(rec.binary, d.id)
        user == toLowerCase(trim(stdout))
        after == [rootStatus EXCEPT ![serialKey] = rootStatusAfterWhoami(user)]
    IN  /\ rec.pc = "awaitWhoami"
        /\ rootStatus' = after
        /\ IF user = STR_root
           THEN UNCHANGED <<rootTasks, rootIssued>>
           ELSE /\ rootTasks' = [rootTasks EXCEPT ![serialKey] = spawnRoot(@)]
                /\ rootIssued' = [rootIssued EXCEPT ![serialKey] = @ + 1]
        /\ statuses' = [statuses EXCEPT ![e] =
              IF user = STR_root THEN continueLoop(rec, rec.idx + 1, after)
              ELSE afterSpawn([rec EXCEPT !.rooted = @ \cup {serialKey}],
                              rec.idx + 1, after)]
        /\ UNCHANGED <<now, config, userConfigs, globalNotifications, execVars, dltVars,
                       detailCache, stickySwVersions>>

\* lines 446-450: `root` has ended, `wait-for-device` is started
RootReturn(k, ok) ==
    /\ rootTasks[k].root > 0
    /\ rootTasks' = [rootTasks EXCEPT ![k] = [root |-> @.root - 1, wait |-> @.wait + 1]]
    /\ UNCHANGED <<now, config, userConfigs, globalNotifications, execVars, dltVars, rootStatus,
                   rootIssued, detailCache, stickySwVersions, statuses>>

\* lines 451-459: `wait-for-device` has ended
WaitReturn(k, ok) ==
    /\ rootTasks[k].wait > 0
    /\ rootTasks' = [rootTasks EXCEPT ![k] = [@ EXCEPT !.wait = @ - 1]]
    /\ rootStatus' = [rootStatus EXCEPT ![k] = rootStatusAfterChain(ok)]
    /\ UNCHANGED <<now, config, userConfigs, globalNotifications, execVars, dltVars, rootIssued,
                   detailCache, stickySwVersions, statuses>>


\* lines 495-516: `cat etc/version` has printed stdout; the five queries start
StatusVersionReturn(e, stdout) ==
    LET rec == statuses[e]
        stickyKey == KeyOf(rec.binary, rec.activeTarget)
        read == trim(stdout)
        sticky == stickySwVersions[stickyKey]
        swVersion == IF read = <<>> /\ includes(sticky, STR_WAVE) THEN sticky ELSE read
    IN  /\ rec.pc = "awaitVersion"
        /\ stickySwVersions' =
              IF read = <<>> /\ includes(sticky, STR_WAVE) THEN stickySwVersions
              ELSE IF read # <<>> THEN [stickySwVersions EXCEPT ![stickyKey] = read]
              ELSE stickySwVersions
        /\ statuses' = [statuses EXCEPT ![e] =
              [rec EXCEPT !.pc = "awaitQueries",
                          !.extraInfo = [Baseline EXCEPT !.swVersion =
                                IF swVersion = <<>> THEN STR_Unknown ELSE swVersion]]]
        /\ UNCHANGED <<now, config, userConfigs, globalNotifications, execVars, dltVars, rootStatus,
                       rootTasks, rootIssued, detailCache>>

\* lines 592-620: the cache update or the stale fallback, and the response
Finalize(e, rec, info) ==
    LET cacheKeyForLog == KeyOf(rec.binary, rec.activeTarget)
        served == IF fetchSuccess(info) THEN info ELSE staleFallback(rec.cached, info)
    IN  /\ detailCache' =
              IF fetchSuccess(info)
              THEN [detailCache EXCEPT ![cacheKeyForLog] =
                        [set |-> TRUE, data |-> info, timestamp |-> now]]
              ELSE detailCache
        /\ statuses' = [statuses EXCEPT ![e] =
              respond([rec EXCEPT !.extraInfo = info], served, FALSE, TRUE)]

\* if (iMatch) extraInfo.imei = iMatch (line 551)
withImei(info, iMatch) == IF iMatch # <<>> THEN [info EXCEPT !.imei = iMatch] ELSE info

\* lines 524-587: the five queries have settled with the captures q
StatusQueriesReturn(e, q) ==
    LET rec == statuses[e]
        isBmw == includes(rec.extraInfo.swVersion, STR_WAVE)
        info == parsedInfo(rec.extraInfo, q, isBmw)
    IN  /\ rec.pc = "awaitQueries"
        /\ IF q.imei = <<>> /\ isBmw
           THEN /\ statuses' = [statuses EXCEPT ![e] =
                        [rec EXCEPT !.pc = "awaitImei0", !.extraInfo = info]]
                /\ UNCHANGED detailCache
           ELSE Finalize(e, rec, withImei(info, q.imei))
        /\ UNCHANGED <<now, config, userConfigs, globalNotifications, execVars, dltVars, rootStatus,
                       rootTasks, rootIssued, stickySwVersions>>

\* lines 548-551: `telephony getimei 0` has answered with the capture iMatch
StatusImei0Return(e, iMatch) ==
    LET rec == statuses[e]
    IN  /\ rec.pc = "awaitImei0"
        /\ Finalize(e, rec, withImei(rec.extraInfo, iMatch))
        /\ UNCHANGED <<now, config, userConfigs, globalNotifications, execVars, dltVars, rootStatus,
                       rootTasks, rootIssued, stickySwVersions>>

\* the response was delivered; the next poll may begin
StatusFinish(e) ==
    /\ statuses[e].pc = "responded"
    /\ statuses' = [statuses EXCEPT ![e] = IdleStatus]
    /\ UNCHANGED <<now, config, userConfigs, globalNotifications, execVars, dltVars, rootStatus,
                   rootTasks, rootIssued, detailCache, stickySwVersions>>

StatusTick ==
    /\ Tick(StatusTickMs, MaxStatusTicks)
    /\ UNCHANGED <<config, userConfigs, globalNotifications, execVars, dltVars>>
    /\ UNCHANGED statusVars

StatusPostConfig ==
    \E id \in ActiveClients, serial \in StatusConfigSerials :
        /\ PostConfig(id, "", TRUE, serial)
        /\ UNCHANGED <<now, execVars, dltVars>>
        /\ UNCHANGED statusVars

\* the steps of evaluation e that follow an executor call of its own
StatusStep(e) ==
    \/ \E stdout \in StatusDevicesOutputs : StatusDevicesReturn(e, stdout)
    \/ \E stdout \in WhoamiOutputs : StatusWhoamiReturn(e, stdout)
    \/ \E stdout \in VersionOutputs : StatusVersionReturn(e, stdout)
    \/ \E q \in QueryResults : StatusQueriesReturn(e, q)
    \/ \E iMatch \in Imei0Results : StatusImei0Return(e, iMatch)

\* the steps of the background root chains
RootChainStep ==
    \/ \E k \in Keys, ok \in BOOLEAN : RootReturn(k, ok)
    \/ \E k \in Keys, ok \in BOOLEAN : WaitReturn(k, ok)

StatusNext ==
    \/ StatusTick
    \/ StatusPostConfig
    \/ \E e \in StatusIds, id \in ActiveClients : StatusStart(e, id)
    \/ \E e \in StatusIds : StatusStep(e)
    \/ \E e \in StatusIds : StatusFinish(e)
    \/ RootChainStep

StatusSpec == Init /\ [][StatusNext]_vars


\* the status polls and the root chains alone, the clock standing still
RootNext ==
    \/ \E e \in StatusIds, id \in ActiveClients : StatusStart(e, id)
    \/ \E e \in StatusIds : StatusStep(e)
    \/ \E e \in StatusIds : StatusFinish(e)
    \/ RootChainStep

\* the root chains end: execAsync resolves when the command exits or its timeout
\* kills it (lines 304-319), and the event loop then runs the continuation
FairRootSpec ==
    /\ Init /\ [][RootNext]_vars
    /\ \A k \in Keys :
          /\ WF_vars(\E ok \in BOOLEAN : RootReturn(k, ok))
          /\ WF_vars(\E ok \in BOOLEAN : WaitReturn(k, ok))

(***************************************************************************)
(* Properties of the automatic root                                        *)
(***************************************************************************)
\* how many root chains are in flight for key k
InFlight(k) == rootTasks[k].root + rootTasks[k].wait

\* C5: for every device key, at most one `root` command is ever issued by the
\* status evaluations that found its state unset, and at no time are two root
\* chains in flight for the key.
C5_AtMostOneElevation ==
    \A k \in Keys : rootIssued[k] <= 1 /\ InFlight(k) <= 1

\* C6 as stated: the state of a key only steps unknown -> pending and
\* pending -> done.
C6_OnlyUnknownPendingDone ==
    [][\A k \in Keys :
          rootStatus'[k] # rootStatus[k] =>
              <<rootStatus[k], rootStatus'[k]>> \in
                  { <<"unknown", "pending">>, <<"pending", "done">> }]_vars

\* evaluation e is at the return of its privilege probe for key k
ProbeReturns(e, k) ==
    /\ statuses[e].pc = "awaitWhoami"
    /\ k = KeyOf(statuses[e].binary,
                 readyDevices(statuses[e].devices)[statuses[e].idx].id)
    /\ statuses'[e] # statuses[e]

\* C6 amended: no step returns a key to unknown, and a key leaves unknown only
\* when a privilege probe for it returns: to pending, with one root command
\* issued for it in that step, or directly to done, with none issued.
C6_LeavesUnknownOnceByProbe ==
    [][\A k \in Keys :
          /\ rootStatus'[k] = "unknown" => rootStatus[k] = "unknown"
          /\ (rootStatus[k] = "unknown" /\ rootStatus'[k] # "unknown") =>
                /\ \E e \in StatusIds : ProbeReturns(e, k)
                /\ rootStatus'[k] = "pending" =>
                      /\ rootIssued'[k] = rootIssued[k] + 1
                      /\ InFlight(k)' = InFlight(k) + 1
                /\ rootStatus'[k] = "done" =>
                      /\ rootIssued'[k] = rootIssued[k]
                      /\ rootTasks' = rootTasks]_vars

\* a key went from unknown to done without a root command
C6_Witness ==
    \E k \in Keys : rootStatus[k] = "done" /\ rootIssued[k] = 0

\* C7: whenever the state of a key is pending it is eventually done.
C7_PendingResolves ==
    \A k \in Keys : (rootStatus[k] = "pending") ~> (rootStatus[k] = "done")

\* a chain was started for a key, has ended, and the key is done
C7_Witness ==
    \E k \in Keys : rootIssued[k] > 0 /\ InFlight(k) = 0 /\ rootStatus[k] = "done"

\* C8: the step of an evaluation that marks a key pending and starts its root
\* chain goes straight on to the evaluation's next executor call or to its
\* response, with the key still pending: it does not wait for the chain.
C8_StatusDoesNotAwaitElevation ==
    [][\A e \in StatusIds, k \in Keys :
          (ProbeReturns(e, k) /\ rootTasks'[k].root = rootTasks[k].root + 1) =>
              /\ rootStatus'[k] = "pending"
              /\ statuses'[e].pc \in {"awaitWhoami", "awaitVersion", "responded"}
              /\ statuses'[e].pc = "responded" => statuses'[e].res.sent]_vars

\* a response was sent by the evaluation that started a root chain, while the
\* chain is in flight and the key is pending
C8_Witness ==
    \E e \in StatusIds, k \in Keys :
        /\ statuses[e].pc = "responded" /\ statuses[e].res.sent
        /\ k \in statuses[e].res.rooted
        /\ rootIssued[k] = 1 /\ InFlight(k) = 1
        /\ rootStatus[k] = "pending"

(***************************************************************************)
(* Properties of the detail cache                                          *)
(***************************************************************************)
\* the step in which evaluation e passes its cache check or responds without it
Decides(e) ==
    /\ statuses[e].pc \in {"awaitDevices", "awaitWhoami"}
    /\ statuses'[e].pc \in {"awaitVersion", "responded"}

\* the key of the device evaluation e has settled on, after the step
DecidedBinary(e) ==
    IF statuses'[e].pc = "responded" THEN statuses'[e].res.binary ELSE statuses'[e].binary
DecidedTarget(e) ==
    IF statuses'[e].pc = "responded" THEN statuses'[e].res.target
    ELSE statuses'[e].activeTarget

\* C9: a status request that arrives when a snapshot is stored for the key of
\* its connected target is answered with the stored snapshot, running no
\* diagnostic query, if it checks the cache less than DETAIL_TTL after the
\* snapshot was stored, and starts a fresh fetch if it checks it later.
C9_FreshSnapshotServed ==
    [][\A e \in StatusIds :
          LET entry == detailCache[KeyOf(DecidedBinary(e), DecidedTarget(e))]
              arrivedAfter == KeyOf(DecidedBinary(e), DecidedTarget(e)) \in statuses[e].known
          IN  (Decides(e) /\ DecidedTarget(e) # <<>> /\ entry.set /\ arrivedAfter) =>
                  IF now - entry.timestamp < DETAIL_TTL
                  THEN /\ statuses'[e].pc = "responded"
                       /\ statuses'[e].res.extraInfo = entry.data
                       /\ ~statuses'[e].res.queried
                  ELSE statuses'[e].pc = "awaitVersion"]_vars

\* no query gave a field that counts: the IMEI, the SIM state, the service state
\* and the radio are as in the baseline
Blank(info) ==
    /\ info.imei = STR_dash /\ info.simState = -1
    /\ info.serviceState = STR_dash /\ ~info.radioOn

\* C10: when the fresh fetch of an evaluation fails, the step that responds
\* leaves the detail cache as it is; the evaluation answers with the snapshot it
\* found in the cache, if it found one, and with blank details only if it found
\* none.
C10_FailedFetchServesSnapshot ==
    [][\A e \in StatusIds :
          (/\ statuses[e].pc \in {"awaitQueries", "awaitImei0"}
           /\ statuses'[e].pc = "responded"
           /\ Blank(statuses'[e].res.fetched)) =>
              /\ detailCache' = detailCache
              /\ statuses[e].cached.set =>
                    /\ statuses'[e].res.extraInfo = statuses[e].cached.data
                    /\ ~Blank(statuses'[e].res.extraInfo)
              /\ ~statuses[e].cached.set => Blank(statuses'[e].res.extraInfo)]_vars

\* a failed fetch was answered with a snapshot, which is still in the cache
C10_Witness ==
    \E e \in StatusIds :
        /\ statuses[e].pc = "responded" /\ statuses[e].res.queried
        /\ Blank(statuses[e].res.fetched)
        /\ ~Blank(statuses[e].res.extraInfo)
        /\ detailCache[KeyOf(statuses[e].res.binary, statuses[e].res.target)].data
              = statuses[e].res.extraInfo

\* the fetched snapshot differs from the baseline in one of the six fields the
\* status answer shows: SIM state, IMEI, service state, region, radio flag,
\* software version (unset or 'Unknown' is the default of the last)
DiffersFromBaseline(info) ==
    \/ ~Blank(info)
    \/ info.region # Baseline.region
    \/ info.swVersion \notin {Baseline.swVersion, STR_Unknown}

\* the step in which evaluation e answers after its fresh fetch
FetchEnds(e) ==
    /\ statuses[e].pc \in {"awaitQueries", "awaitImei0"}
    /\ statuses'[e].pc = "responded"

\* the entry a successful fetch of evaluation e puts into the cache
FreshEntry(e) ==
    [set |-> TRUE, data |-> statuses'[e].res.fetched, timestamp |-> now]

\* C11 as stated: a fetch overwrites the cache exactly when one of the six
\* fields of the fetched snapshot differs from the baseline
C11_AnyFieldOverwrites ==
    [][\A e \in StatusIds : FetchEnds(e) =>
          LET info == statuses'[e].res.fetched
              k == KeyOf(statuses'[e].res.binary, statuses'[e].res.target)
          IN  IF DiffersFromBaseline(info)
              THEN detailCache' = [detailCache EXCEPT ![k] = FreshEntry(e)]
              ELSE detailCache' = detailCache]_vars

\* C11: a fetch overwrites the cache entry of its key with the fetched snapshot
\* and the current time exactly when the IMEI, the SIM state, the service state
\* or the radio flag differs from the baseline; the region and the software
\* version do not count, and a fetch with those four fields at the baseline
\* leaves the cache as it is
C11_CountedFieldOverwrites ==
    [][\A e \in StatusIds : FetchEnds(e) =>
          LET info == statuses'[e].res.fetched
              k == KeyOf(statuses'[e].res.binary, statuses'[e].res.target)
          IN  IF ~Blank(info)
              THEN detailCache' = [detailCache EXCEPT ![k] = FreshEntry(e)]
              ELSE detailCache' = detailCache]_vars

\* a fetch that brought a region and a software version but none of the four
\* counted fields was answered, and the cache holds nothing for its key
C11_Witness ==
    \E e \in StatusIds :
        /\ statuses[e].pc = "responded" /\ statuses[e].res.queried
        /\ Blank(statuses[e].res.fetched)
        /\ statuses[e].res.fetched.region # Baseline.region
        /\ includes(statuses[e].res.fetched.swVersion, STR_WAVE)
        /\ ~detailCache[KeyOf(statuses[e].res.binary, statuses[e].res.target)].set

(***************************************************************************)
(* The DLT bridges: setupDltProxy, cleanupDltProxy, launch-dlt, stop-dlt   *)
(***************************************************************************)
dltOthers == <<now, config, globalNotifications, execVars, statusVars>>
dltKept == <<dltOthers, launched>>

\* an answer that always counts one bridge as cleaned
dltRespondCleanedOne(rec, status, success, port, autoAssigned, cleaned) ==
    [IdleDlt EXCEPT
        !.pc = "responded", !.client = rec.client,
        !.res = [sent |-> TRUE, status |-> status, success |-> success, port |-> port,
                 requestedPort |-> rec.requestedPort, autoAssigned |-> autoAssigned,
                 cleaned |-> 1, contested |-> rec.contested]]

\* res.status(..).json(..): the handler is over, its locals are gone
dltRespond(rec, status, success, port, autoAssigned, cleaned) ==
    [IdleDlt EXCEPT
        !.pc = "responded", !.client = rec.client,
        !.res = [sent |-> TRUE, status |-> status, success |-> success, port |-> port,
                 requestedPort |-> rec.requestedPort, autoAssigned |-> autoAssigned,
                 cleaned |-> cleaned, contested |-> rec.contested]]

\* the candidates of a loop that gives up when the requested port is tracked in
\* use
candidatesRequestedOnly(rec, from, used) ==
    { a \in from .. (MaxAttempts - 1) :
        /\ rec.requestedPort \notin used
        /\ rec.requestedPort + a <= MaxPort
        /\ rec.requestedPort + a \notin used }

\* the candidates of a loop that makes eleven attempts
candidatesEleven(rec, from, used) ==
    { a \in from .. MaxAttempts :
        /\ rec.requestedPort + a <= MaxPort
        /\ rec.requestedPort + a \notin used }

\* the candidates the loop of lines 1003-1010 still has from attempt `from` on:
\* at most ten, none above 65535, none that is tracked in use
candidates(rec, from, used) ==
    { a \in from .. (MaxAttempts - 1) :
        /\ rec.requestedPort + a <= MaxPort
        /\ rec.requestedPort + a \notin used }

\* a loop for which a failed listen is fatal
tryFromFatal(rec, from, used) ==
    LET c == candidates(rec, from, used)
    IN  IF c = {} \/ from > 0
        THEN dltRespond(rec, 500, FALSE, 0, FALSE, 0)
        ELSE [rec EXCEPT !.pc = "awaitForward",
                         !.attempt = CHOOSE a \in c : \A b \in c : a <= b]

\* lines 1003-1015 and 1030-1035: the loop goes to its next candidate and issues
\* the forward for it, or ends with no proxy server and answers 500
tryFrom(rec, from, used) ==
    LET c == candidates(rec, from, used)
    IN  IF c = {}
        THEN dltRespond(rec, 500, FALSE, 0, FALSE, 0)
        ELSE [rec EXCEPT !.pc = "awaitForward",
                         !.attempt = CHOOSE a \in c : \A b \in c : a <= b]

\* setupDltProxy (lines 148-186): listen(publicPort) succeeds unless the port
\* is held, by another program or by a proxy server of this one
canListen(publicPort) ==
    /\ publicPort \notin occupied
    /\ \A h \in listeners : h[2] # publicPort

\* what `forward tcp:<port> tcp:3490` and `forward --remove tcp:<port>` do to
\* the forwards of the adb server when they succeed
forwardAdded(port, serial, ok) ==
    IF ok THEN [forwards EXCEPT ![port] = serial] ELSE forwards
forwardRemoved(port, ok) ==
    IF ok THEN [forwards EXCEPT ![port] = <<>>] ELSE forwards

\* another session has a bridge on publicPort for another device
ownedByOther(id, serial, publicPort) ==
    \E c \in Clients \ {id} :
        /\ dltProxies[c].set /\ dltProxies[c].publicPort = publicPort
        /\ dltProxies[c].serial # serial

\* a launch-dlt that never finds its bridge reusable
reusableNever(existing, serial, requestedPort) == FALSE

\* lines 980-981: the session has a bridge for this device on this port
reusable(existing, serial, requestedPort) ==
    /\ existing.set /\ existing.serial = serial
    /\ existing.publicPort = requestedPort

\* POST /api/config of a session that selects a device
DltPostConfig ==
    \E sel \in DltSelections :
        /\ PostConfig(sel[1], "", TRUE, sel[2])
        /\ UNCHANGED <<now, execVars, statusVars, dltVars>>

\* lines 957-1015: up to the first await of the handler
LaunchStart(r, id, dltPort) ==
    LET binary == getAdbBinary(id)
        requestedPort == IF dltPort = 0 THEN DEFAULT_DLT_PORT ELSE dltPort
        userConfig == userConfigs[id]
        existing == dltProxies[id]
        rec == [IdleDlt EXCEPT !.client = id, !.serial = userConfig.serial,
                               !.binary = binary, !.requestedPort = requestedPort,
                               !.contested = ownedByOther(id, userConfig.serial,
                                                          requestedPort)]
    IN  /\ dlts[r].pc = "idle"
        /\ launched < MaxLaunches
        /\ launched' = launched + 1
        /\ IF ~userConfig.set \/ userConfig.serial = <<>>
           THEN /\ dlts' = [dlts EXCEPT ![r] = dltRespond(rec, 400, FALSE, 0, FALSE, 0)]
                /\ UNCHANGED listeners
           ELSE IF requestedPort <= 0 \/ requestedPort > MaxPort
           THEN /\ dlts' = [dlts EXCEPT ![r] = dltRespond(rec, 400, FALSE, 0, FALSE, 0)]
                /\ UNCHANGED listeners
           ELSE IF reusable(existing, userConfig.serial, requestedPort)
           THEN /\ dlts' = [dlts EXCEPT ![r] = [rec EXCEPT !.pc = "awaitRefresh"]]
                /\ UNCHANGED listeners
           ELSE IF existing.set
           THEN \* cleanupDltProxy up to its await: entry.proxy.close()
                /\ listeners' = listeners \ {existing.proxy}
                /\ dlts' = [dlts EXCEPT ![r] =
                      [rec EXCEPT !.pc = "awaitCleanup", !.entry = existing]]
           ELSE /\ dlts' = [dlts EXCEPT ![r] = tryFrom(rec, 0, usedDltPorts)]
                /\ UNCHANGED listeners
        /\ UNCHANGED <<userConfigs, dltProxies, usedDltPorts, forwards, occupied>>
        /\ UNCHANGED dltOthers

\* lines 985-992: the forward of the reused bridge returned
LaunchRefreshReturn(r, ok) ==
    LET rec == dlts[r]
    IN  /\ rec.pc = "awaitRefresh"
        /\ forwards' = forwardAdded(rec.requestedPort + InternalOffset, rec.serial, ok)
        /\ dlts' = [dlts EXCEPT ![r] =
              dltRespond(rec, 200, TRUE, rec.requestedPort, FALSE, 0)]
        /\ UNCHANGED <<userConfigs, dltProxies, usedDltPorts, listeners, occupied>>
        /\ UNCHANGED dltKept

\* lines 206-215 and 996-1015: the forward removal of the old bridge returned;
\* the port is released, the entry deleted, and the loop starts
LaunchCleanupReturn(r, ok) ==
    LET rec == dlts[r]
        used == usedDltPorts \ {rec.entry.publicPort}
    IN  /\ rec.pc = "awaitCleanup"
        /\ forwards' = forwardRemoved(rec.entry.internalPort, ok)
        /\ usedDltPorts' = used
        /\ dltProxies' = [dltProxies EXCEPT ![rec.client] = NoBridge]
        /\ dlts' = [dlts EXCEPT ![r] = tryFrom(rec, 0, used)]
        /\ UNCHANGED <<userConfigs, listeners, occupied>>
        /\ UNCHANGED dltKept

\* lines 1015-1025 and 1037-1063: the forward of the candidate returned and its
\* result is dropped; the proxy server listens and the bridge is registered, or
\* the listen fails and the forward is removed again
LaunchForwardReturn(r, ok) ==
    LET rec == dlts[r]
        tryPort == rec.requestedPort + rec.attempt
        internalPort == tryPort + InternalOffset
        proxyServer == <<rec.client, tryPort>>
    IN  /\ rec.pc = "awaitForward"
        /\ forwards' = forwardAdded(internalPort, rec.serial, ok)
        /\ IF canListen(tryPort)
           THEN /\ listeners' = listeners \union {proxyServer}
                /\ usedDltPorts' = usedDltPorts \union {tryPort}
                /\ dltProxies' = [dltProxies EXCEPT ![rec.client] =
                      [set |-> TRUE, proxy |-> proxyServer, serial |-> rec.serial,
                       publicPort |-> tryPort, internalPort |-> internalPort,
                       binary |-> rec.binary]]
                /\ dlts' = [dlts EXCEPT ![r] =
                      dltRespond(rec, 200, TRUE, tryPort, tryPort # rec.requestedPort, 0)]
           ELSE /\ dlts' = [dlts EXCEPT ![r] = [rec EXCEPT !.pc = "awaitUnforward"]]
                /\ UNCHANGED <<listeners, usedDltPorts, dltProxies>>
        /\ UNCHANGED <<userConfigs, occupied>>
        /\ UNCHANGED dltKept

\* the results of the forward removal of an abandoned candidate (line 1024):
\* it succeeds or fails, and is taken to succeed on a host where other programs
\* hold a run of candidates, where the forwards it could leave behind serve no
\* bridge
UnforwardResults == IF Cardinality(occupied) > 1 THEN {TRUE} ELSE BOOLEAN

\* lines 1024-1026 and 1003-1015: the forward removal of the abandoned candidate
\* returned; the loop continues
LaunchUnforwardReturn(r, ok) ==
    LET rec == dlts[r]
        internalPort == rec.requestedPort + rec.attempt + InternalOffset
    IN  /\ rec.pc = "awaitUnforward"
        /\ ok \in UnforwardResults
        /\ forwards' = forwardRemoved(internalPort, ok)
        /\ dlts' = [dlts EXCEPT ![r] = tryFrom(rec, rec.attempt + 1, usedDltPorts)]
        /\ UNCHANGED <<userConfigs, dltProxies, usedDltPorts, listeners, occupied>>
        /\ UNCHANGED dltKept

\* lines 1071-1076 with cleanupDltProxy up to its await (lines 193-206)
StopStart(r, clientId) ==
    LET entry == dltProxies[clientId]
        rec == [IdleDlt EXCEPT !.client = clientId]
    IN  /\ dlts[r].pc = "idle"
        /\ IF ~entry.set
           THEN /\ dlts' = [dlts EXCEPT ![r] = dltRespond(rec, 200, TRUE, 0, FALSE, 0)]
                /\ UNCHANGED <<listeners, usedDltPorts, dltProxies>>
           ELSE IF userConfigs[clientId].set
           THEN /\ listeners' = listeners \ {entry.proxy}
                /\ dlts' = [dlts EXCEPT ![r] =
                      [rec EXCEPT !.pc = "awaitStop", !.entry = entry]]
                /\ UNCHANGED <<usedDltPorts, dltProxies>>
           ELSE /\ listeners' = listeners \ {entry.proxy}
                /\ usedDltPorts' = usedDltPorts \ {entry.publicPort}
                /\ dltProxies' = [dltProxies EXCEPT ![clientId] = NoBridge]
                /\ dlts' = [dlts EXCEPT ![r] = dltRespond(rec, 200, TRUE, 0, FALSE, 1)]
        /\ UNCHANGED <<userConfigs, forwards, occupied>>
        /\ UNCHANGED dltKept

\* lines 206-216 and 1075: the forward removal returned
StopReturn(r, ok) ==
    LET rec == dlts[r]
    IN  /\ rec.pc = "awaitStop"
        /\ forwards' = forwardRemoved(rec.entry.internalPort, ok)
        /\ usedDltPorts' = usedDltPorts \ {rec.entry.publicPort}
        /\ dltProxies' = [dltProxies EXCEPT ![rec.client] = NoBridge]
        /\ dlts' = [dlts EXCEPT ![r] = dltRespond(rec, 200, TRUE, 0, FALSE, 1)]
        /\ UNCHANGED <<userConfigs, listeners, occupied>>
        /\ UNCHANGED dltKept

\* the response has gone out
DltFinish(r) ==
    /\ dlts[r].pc = "responded"
    /\ dlts' = [dlts EXCEPT ![r] = IdleDlt]
    /\ UNCHANGED <<userConfigs, dltProxies, usedDltPorts, listeners, forwards, occupied>>
    /\ UNCHANGED dltKept

\* One launch-dlt is in its handler at a time; stop-dlt requests overlap it and
\* one another.
DltNext ==
    \/ DltPostConfig
    \/ \E r \in LaunchIds, id \in Clients, dltPort \in DltPortInputs : LaunchStart(r, id, dltPort)
    \/ \E r \in LaunchIds, ok \in BOOLEAN : LaunchRefreshReturn(r, ok)
    \/ \E r \in LaunchIds, ok \in BOOLEAN : LaunchCleanupReturn(r, ok)
    \/ \E r \in LaunchIds, ok \in BOOLEAN : LaunchForwardReturn(r, ok)
    \/ \E r \in LaunchIds, ok \in BOOLEAN : LaunchUnforwardReturn(r, ok)
    \/ \E r \in DltIds, clientId \in Clients : StopStart(r, clientId)
    \/ \E r \in DltIds, ok \in BOOLEAN : StopReturn(r, ok)
    \/ \E r \in DltIds : DltFinish(r)

DltSpec == DltInit /\ [][DltNext]_vars

\* the launch-dlt requests alone, one after the other
LaunchNext ==
    \/ DltPostConfig
    \/ \E r \in LaunchIds, id \in Clients, dltPort \in DltPortInputs : LaunchStart(r, id, dltPort)
    \/ \E r \in LaunchIds, ok \in BOOLEAN : LaunchRefreshReturn(r, ok)
    \/ \E r \in LaunchIds, ok \in BOOLEAN : LaunchCleanupReturn(r, ok)
    \/ \E r \in LaunchIds, ok \in BOOLEAN : LaunchForwardReturn(r, ok)
    \/ \E r \in LaunchIds, ok \in BOOLEAN : LaunchUnforwardReturn(r, ok)
    \/ \E r \in LaunchIds : DltFinish(r)

\* every command a handler awaits returns: execAsync resolves when the command
\* ends or its timeout of 3 or 5 seconds expires (lines 304-319), and listen
\* ends with 'listening' or 'error'
FairLaunchSpec ==
    /\ DltInit /\ [][LaunchNext]_vars
    /\ \A r \in LaunchIds :
          /\ WF_vars(\E ok \in BOOLEAN : LaunchRefreshReturn(r, ok))
          /\ WF_vars(\E ok \in BOOLEAN : LaunchCleanupReturn(r, ok))
          /\ WF_vars(\E ok \in BOOLEAN : LaunchForwardReturn(r, ok))
          /\ WF_vars(\E ok \in BOOLEAN : LaunchUnforwardReturn(r, ok))

\* a host where other programs hold every candidate above the default port
BusyInit == ServerInit /\ occupied = TryPorts \ {DEFAULT_DLT_PORT}
BusySpec == BusyInit /\ [][LaunchNext]_vars

\* one session that sends launch-dlt for the default port again and again, for
\* the same device, and nothing else: the client sends the port of its settings
\* each time (app.js lines 2741-2748)
RepeatPostConfig ==
    /\ PostConfig("client_1", "", TRUE, ABC123)
    /\ UNCHANGED <<now, execVars, statusVars, dltVars>>
RepeatNext ==
    \/ RepeatPostConfig
    \/ \E r \in LaunchIds : LaunchStart(r, "client_1", 0)
    \/ \E r \in LaunchIds, ok \in BOOLEAN : LaunchRefreshReturn(r, ok)
    \/ \E r \in LaunchIds, ok \in BOOLEAN : LaunchCleanupReturn(r, ok)
    \/ \E r \in LaunchIds, ok \in BOOLEAN : LaunchForwardReturn(r, ok)
    \/ \E r \in LaunchIds, ok \in BOOLEAN : LaunchUnforwardReturn(r, ok)
    \/ \E r \in LaunchIds : DltFinish(r)
RepeatInit ==
    /\ ServerInit
    /\ occupied \in { {}, {DEFAULT_DLT_PORT}, {DEFAULT_DLT_PORT, DEFAULT_DLT_PORT + 1} }
RepeatSpec == RepeatInit /\ [][RepeatNext]_vars

(***************************************************************************)
(* Properties of the DLT bridges                                           *)
(***************************************************************************)
\* slot r holds the answer of a launch-dlt that got past the checks of its
\* request (a launch-dlt answers 400 before it looks at the bridges)
LaunchAnswered(r) ==
    /\ dlts[r].pc = "responded"
    /\ dlts[r].res.requestedPort # 0
    /\ dlts[r].res.status # 400

\* C12 as stated: a launch-dlt for a port that was the public port of another
\* session's bridge for another device when it arrived is answered with an error
C12_OwnedPortIsRefused ==
    \A r \in DltIds :
        (LaunchAnswered(r) /\ dlts[r].res.contested) => ~dlts[r].res.success

\* publicPort is tracked in use and is the public port of a bridge of a session
\* other than id, for a device other than serial
trackedForOther(id, serial, publicPort) ==
    /\ publicPort \in usedDltPorts'
    /\ ownedByOther(id, serial, publicPort)

\* the step in which the candidate loop of launch-dlt r starts
LoopStarts(r) ==
    /\ \/ dlts[r].pc = "idle" /\ launched' = launched + 1
       \/ dlts[r].pc = "awaitCleanup"
    /\ \/ dlts'[r].pc = "awaitForward"
       \/ dlts'[r].pc = "responded" /\ dlts'[r].res.status = 500

\* C12: a launch-dlt whose candidate loop starts while the requested port P is
\* tracked in use for another session's bridge for another device is not
\* answered with an error on that account: the loop skips P and issues the
\* forward for a later candidate P+k that is not tracked in use
C12_TrackedPortIsSkipped ==
    [][\A r \in DltIds :
          LET P == IF dlts'[r].pc = "responded" THEN dlts'[r].res.requestedPort
                   ELSE dlts'[r].requestedPort
              id == dlts'[r].client
          IN  (LoopStarts(r) /\ trackedForOther(id, userConfigs[id].serial, P)) =>
                  /\ dlts'[r].pc = "awaitForward"
                  /\ dlts'[r].attempt \in 1 .. (MaxAttempts - 1)
                  /\ P + dlts'[r].attempt \notin usedDltPorts']_vars

\* a request for a port owned by another session's bridge for another device
\* was answered with success and the next port
C12_Witness ==
    \E r \in DltIds :
        /\ LaunchAnswered(r) /\ dlts[r].res.contested
        /\ dlts[r].res.success /\ dlts[r].res.autoAssigned
        /\ dlts[r].res.port = dlts[r].res.requestedPort + 1
        /\ ownedByOther(dlts[r].client, dltProxies[dlts[r].client].serial,
                        dlts[r].res.requestedPort)
        /\ dlts[r].res.requestedPort \in usedDltPorts

\* a step of the handler of launch-dlt r: its start, or its return from an await
LaunchSteps(r) ==
    /\ dlts'[r] # dlts[r]
    /\ \/ dlts[r].pc = "idle" /\ launched' = launched + 1
       \/ dlts[r].pc \in {"awaitRefresh", "awaitCleanup", "awaitForward", "awaitUnforward"}

\* the session and the port of launch-dlt r, during and after a step of it
LaunchClient(r) == dlts'[r].client
LaunchPort(r) ==
    IF dlts'[r].pc = "responded" THEN dlts'[r].res.requestedPort
    ELSE dlts'[r].requestedPort
LaunchContested(r) ==
    IF dlts'[r].pc = "responded" THEN dlts'[r].res.contested ELSE dlts'[r].contested

\* C13: no step of a launch-dlt for port P that arrived while P was the public
\* port of another session's bridge changes a bridge another session has on P:
\* its dltProxies entry, whether its proxy server listens, whether P is tracked
\* in use, and the forward on P+1000 are the same before and after the step
C13_OwnedBridgeUntouched ==
    [][\A r \in DltIds : (LaunchSteps(r) /\ LaunchContested(r)) =>
          \A c \in Clients \ {LaunchClient(r)} :
              (dltProxies[c].set /\ dltProxies[c].publicPort = LaunchPort(r)) =>
                  /\ dltProxies'[c] = dltProxies[c]
                  /\ (dltProxies[c].proxy \in listeners') = (dltProxies[c].proxy \in listeners)
                  /\ (LaunchPort(r) \in usedDltPorts') = (LaunchPort(r) \in usedDltPorts)
                  /\ forwards'[LaunchPort(r) + InternalOffset]
                        = forwards[LaunchPort(r) + InternalOffset]]_vars

\* the step in which launch-dlt r arrives from session id, which has a device
\* selected and a bridge for that device on the port it asks for
ReuseArrives(r, id) ==
    /\ dlts[r].pc = "idle" /\ launched' = launched + 1
    /\ dlts'[r].client = id
    /\ userConfigs[id].set /\ userConfigs[id].serial # <<>>
    /\ dltProxies[id].set /\ dltProxies[id].serial = userConfigs[id].serial
    /\ dltProxies[id].publicPort = LaunchPort(r)

\* C14: a launch-dlt of a session that has a bridge for the same device on the
\* requested port P issues the forward for P+1000 again and, when that command
\* returns, answers success with port P; neither step creates or closes a proxy
\* server, changes a dltProxies entry or changes usedDltPorts, and the only
\* forward that can change is the one on P+1000, to the session's device
C14_ReuseLeavesBridge ==
    [][\A r \in DltIds :
          /\ (\E id \in Clients : ReuseArrives(r, id)) =>
                /\ dlts'[r].pc = "awaitRefresh"
                /\ UNCHANGED <<listeners, dltProxies, usedDltPorts, forwards>>
          /\ (dlts[r].pc = "awaitRefresh" /\ dlts'[r] # dlts[r]) =>
                /\ dlts'[r].pc = "responded"
                /\ dlts'[r].res.success /\ dlts'[r].res.status = 200
                /\ dlts'[r].res.port = dlts[r].requestedPort
                /\ UNCHANGED <<listeners, dltProxies, usedDltPorts>>
                /\ \A p \in DOMAIN forwards :
                      \/ forwards'[p] = forwards[p]
                      \/ /\ p = dlts[r].requestedPort + InternalOffset
                         /\ forwards'[p] = dlts[r].serial]_vars

\* a launch-dlt is waiting for the forward it issued again for the bridge the
\* session has, which is listening
C14_Witness ==
    \E r \in DltIds :
        /\ dlts[r].pc = "awaitRefresh"
        /\ reusable(dltProxies[dlts[r].client], dlts[r].serial, dlts[r].requestedPort)
        /\ dltProxies[dlts[r].client].proxy \in listeners
        /\ dlts[r].requestedPort \in usedDltPorts

\* no two sessions have bridges with the same public port
DistinctPublicPorts ==
    \A c, d \in Clients :
        (c # d /\ dltProxies[c].set /\ dltProxies[d].set) =>
            dltProxies[c].publicPort # dltProxies[d].publicPort

\* the internal port of every bridge is its public port plus 1000
InternalIsPublicPlus1000 ==
    \A c \in Clients :
        dltProxies[c].set =>
            dltProxies[c].internalPort = dltProxies[c].publicPort + InternalOffset

\* the step in which launch-dlt r registers a bridge does not give it a port
\* that is tracked in use and is the public port of another session's bridge
AssignsNoTrackedPort(r) ==
    (dlts[r].pc = "awaitForward" /\ dlts'[r].pc = "responded") =>
        \A c \in Clients \ {dlts[r].client} :
            ~ /\ dltProxies[c].set
              /\ dltProxies[c].publicPort = dlts'[r].res.port
              /\ dlts'[r].res.port \in usedDltPorts

\* C15: at all times no two bridges in dltProxies have the same public port and
\* every bridge has internalPort = publicPort + 1000, and launch-dlt never
\* assigns a port that is tracked in use for another session's bridge
C15_BridgePortsDistinct ==
    /\ [](DistinctPublicPorts /\ InternalIsPublicPlus1000)
    /\ [][\A r \in DltIds : AssignsNoTrackedPort(r)]_vars

\* launch-dlt r is inside its handler, suspended at an await
LaunchPending(r) ==
    dlts[r].pc \in {"awaitRefresh", "awaitCleanup", "awaitForward", "awaitUnforward"}

\* the candidate launch-dlt r is at is one of the ten ports P .. P+9
WithinTenCandidates(r) ==
    dlts[r].pc \in {"awaitForward", "awaitUnforward"} =>
        /\ dlts[r].attempt \in 0 .. 9
        /\ dlts[r].requestedPort + dlts[r].attempt
              \in dlts[r].requestedPort .. (dlts[r].requestedPort + 9)

\* the step in which launch-dlt r answers that no port could be had registers
\* nothing: the session has no bridge, and no proxy server or tracked port is
\* added
ErrorRegistersNothing(r) ==
    (LaunchSteps(r) /\ dlts'[r].pc = "responded" /\ dlts'[r].res.status = 500) =>
        /\ ~dlts'[r].res.success
        /\ ~dltProxies'[dlts'[r].client].set
        /\ listeners' \subseteq listeners
        /\ usedDltPorts' \subseteq usedDltPorts

\* C16: launch-dlt tries only candidates among the ten ports P .. P+9; when
\* none of them can be had it answers one error (success false) and registers no
\* bridge for the session; and every launch-dlt that is inside its handler is
\* answered: the loop does not go on for ever
C16_TenCandidatesThenError ==
    /\ [](\A r \in DltIds : WithinTenCandidates(r))
    /\ [][\A r \in DltIds : ErrorRegistersNothing(r)]_vars
    /\ \A r \in DltIds : LaunchPending(r) ~> (dlts[r].pc = "responded")

\* with every candidate held by other programs a launch-dlt was answered with
\* the error, and the session has no bridge
C16_Witness ==
    \E r \in DltIds :
        /\ LaunchAnswered(r) /\ dlts[r].res.status = 500 /\ ~dlts[r].res.success
        /\ ~dltProxies[dlts[r].client].set
        /\ occupied = TryPorts /\ listeners = {} /\ usedDltPorts = {}

\* slot r holds the answer of a stop-dlt
StopAnswered(r) ==
    /\ dlts[r].pc = "responded"
    /\ dlts[r].res.requestedPort = 0

\* the step in which a stop-dlt for clientId arrives at slot r
StopArrives(r, clientId) ==
    /\ dlts[r].pc = "idle" /\ launched' = launched
    /\ dlts'[r].pc # "idle" /\ dlts'[r].client = clientId

\* the step in which a stop-dlt that found a bridge is answered
StopCompletes(r) ==
    /\ dlts'[r].pc = "responded" /\ dlts'[r].res.cleaned = 1
    /\ dlts[r].pc \in {"idle", "awaitStop"}

\* C17: a stop-dlt for a session that has no bridge in dltProxies is answered at
\* once with success and cleaned = 0 and changes no bridge, proxy server,
\* tracked port or forward; and when a stop-dlt that found a bridge is answered
\* the session has no bridge, so that a stop-dlt that follows it cleans nothing
C17_StopWithoutBridgeIsNoop ==
    [][\A r \in DltIds :
          /\ \A clientId \in Clients :
                (StopArrives(r, clientId) /\ ~dltProxies[clientId].set) =>
                    /\ dlts'[r].pc = "responded"
                    /\ dlts'[r].res.success /\ dlts'[r].res.status = 200
                    /\ dlts'[r].res.cleaned = 0
                    /\ UNCHANGED <<dltProxies, usedDltPorts, listeners, forwards>>
          /\ StopCompletes(r) => ~dltProxies'[dlts'[r].client].set]_vars

\* a stop-dlt of a session was answered with cleaned = 1 and another one, for
\* the same session, with cleaned = 0, while the other session's bridge is up
C17_Witness ==
    \E r, q \in DltIds :
        /\ StopAnswered(r) /\ dlts[r].res.cleaned = 1
        /\ StopAnswered(q) /\ dlts[q].res.cleaned = 0 /\ dlts[q].res.success
        /\ dlts[q].client = dlts[r].client
        /\ ~dltProxies[dlts[q].client].set
        /\ \E c \in Clients : dltProxies[c].set /\ dltProxies[c].proxy \in listeners

\* the public port of the bridge the stop-dlt that is answered in this step
\* found when it arrived
StoppedPort(r) ==
    IF dlts[r].pc = "awaitStop" THEN dlts[r].entry.publicPort
    ELSE dltProxies[dlts'[r].client].publicPort

\* C18: when a stop-dlt for the session that owned port P is answered, whether
\* the forward removal succeeded or not, the session has no entry in
\* dltProxies, P is not tracked in use and no proxy server listens on P, so
\* that another session that asks for P can be given P
C18_StopReleasesPort ==
    [][\A r \in DltIds : StopCompletes(r) =>
          /\ ~dltProxies'[dlts'[r].client].set
          /\ StoppedPort(r) \notin usedDltPorts'
          /\ \A h \in listeners' : h[2] # StoppedPort(r)]_vars

\* the proxy servers of session c that are listening
LiveListeners(c) == { h \in listeners : h[1] = c }

\* the step in which launch-dlt r, which found a bridge to move, starts its
\* candidate loop: the old entry is deleted, its port is not tracked and its
\* proxy server does not listen
OldBridgeGoneFirst(r) ==
    (dlts[r].pc = "awaitCleanup" /\ dlts'[r] # dlts[r]) =>
        /\ ~dltProxies'[dlts[r].client].set
        /\ dlts[r].entry.publicPort \notin usedDltPorts'
        /\ dlts[r].entry.proxy \notin listeners'

\* C19: a launch-dlt that moves the session's bridge has torn the old bridge
\* down (proxy server closed, port not tracked, entry deleted) before it tries
\* the first candidate for the new one, and at no time does a session have more
\* than one proxy server listening
C19_OneBridgePerSession ==
    /\ [](\A c \in Clients : Cardinality(LiveListeners(c)) <= 1)
    /\ [][\A r \in DltIds : OldBridgeGoneFirst(r)]_vars

\* C20: a launch-dlt answers success for a port only when the forward from that
\* port plus 1000 to the session's device is there: a candidate whose forward
\* command failed is not registered
C20_SuccessOnlyWithForward ==
    [][\A r \in DltIds :
          (/\ dlts[r].pc = "awaitForward" /\ dlts'[r].pc = "responded"
           /\ dlts'[r].res.success) =>
              forwards'[dlts'[r].res.port + InternalOffset] = dlts[r].serial]_vars

\* the candidate launch-dlt r is at, and its internal port
TryPortOf(r) == dlts[r].requestedPort + dlts[r].attempt
InternalPortOf(r) == TryPortOf(r) + InternalOffset

\* the step in which the forward removal of the candidate launch-dlt r has
\* abandoned returns
UnforwardReturns(r) == dlts[r].pc = "awaitUnforward" /\ dlts'[r] # dlts[r]

\* C21 as stated: when the next candidate is tried the forward on the internal
\* port of the candidate that failed to bind is gone
C21_ForwardGoneBeforeNext ==
    [][\A r \in DltIds :
          UnforwardReturns(r) => forwards'[InternalPortOf(r)] = <<>>]_vars

\* C21: a failed listen on a candidate is not fatal. The handler answers nothing
\* and issues the forward removal for the candidate's internal port; when that
\* command returns, with the forward removed if it succeeded and left as it was
\* if it failed, the loop goes to the first later candidate within the ten that
\* is not tracked in use, and answers the error only when there is none; a
\* candidate that can be listened on is answered with success and its port
C21_BindFailureTriesNext ==
    [][\A r \in DltIds :
          /\ (dlts[r].pc = "awaitForward" /\ dlts'[r] # dlts[r]) =>
                IF canListen(TryPortOf(r))
                THEN /\ dlts'[r].pc = "responded" /\ dlts'[r].res.success
                     /\ dlts'[r].res.port = TryPortOf(r)
                ELSE /\ dlts'[r].pc = "awaitUnforward"
                     /\ dlts'[r].attempt = dlts[r].attempt
          /\ UnforwardReturns(r) =>
                /\ forwards'[InternalPortOf(r)] \in {<<>>, forwards[InternalPortOf(r)]}
                /\ LET later == { a \in (dlts[r].attempt + 1) .. (MaxAttempts - 1) :
                                    dlts[r].requestedPort + a \notin usedDltPorts }
                   IN  IF later = {}
                       THEN dlts'[r].pc = "responded" /\ dlts'[r].res.status = 500
                       ELSE /\ dlts'[r].pc = "awaitForward"
                            /\ dlts'[r].attempt \in later
                            /\ \A a \in later : dlts'[r].attempt <= a]_vars

\* on a host where another program holds 3490, a launch-dlt for 3490 that no
\* bridge was in the way of was given 3491, and no forward is left on 4490
C21_Witness ==
    \E r \in DltIds :
        /\ LaunchAnswered(r) /\ dlts[r].res.success /\ ~dlts[r].res.contested
        /\ dlts[r].res.requestedPort = DEFAULT_DLT_PORT
        /\ dlts[r].res.port = DEFAULT_DLT_PORT + 1
        /\ occupied = {DEFAULT_DLT_PORT}
        /\ forwards[DEFAULT_DLT_PORT + InternalOffset] = <<>>
        /\ listeners = {dltProxies[dlts[r].client].proxy}

(***************************************************************************)
(* Properties of getCachedDevices and of the binary                        *)
(***************************************************************************)
\* the step in which POST /api/execute r calls getCachedDevices
CallsGetCachedDevices(r) ==
    /\ executes[r].pc = "idle"
    /\ executes'[r].pc \in {"resolve", "awaitDevices"}

\* the cache holds the empty list of an enumeration made less than CACHE_TTL ago
EmptyAndYoung == 
    /\ deviceCache.timestamp # 0 /\ Len(deviceCache.devices) = 0
    /\ now - deviceCache.timestamp < CACHE_TTL

\* C22 as stated: while the cache holds the empty list of an enumeration that
\* gave no device and is younger than the TTL, a call of getCachedDevices
\* returns the empty list and does not run the executor
C22_EmptyListIsServed ==
    [][\A r \in ExecIds :
          (CallsGetCachedDevices(r) /\ EmptyAndYoung) =>
              /\ executes'[r].pc = "resolve"
              /\ executes'[r].devices = <<>>]_vars

\* C22: an enumeration that gives no device stores the empty list with the time
\* at which the call began; a call of getCachedDevices is served from the cache
\* exactly when the cached list is not empty and younger than the TTL, so while
\* the cache holds an empty list every call runs the executor again
C22_EmptyListIsNotServed ==
    [][\A r \in ExecIds :
          /\ (executes[r].pc = "awaitDevices" /\ executes'[r].pc = "resolve"
              /\ Len(executes'[r].devices) = 0) =>
                  deviceCache' = [devices |-> <<>>, timestamp |-> executes[r].startNow]
          /\ CallsGetCachedDevices(r) =>
                /\ (executes'[r].pc = "resolve") =
                      (/\ now - deviceCache.timestamp < CACHE_TTL
                       /\ Len(deviceCache.devices) > 0)
                /\ executes'[r].pc = "resolve" =>
                      executes'[r].devices = deviceCache.devices
                /\ UNCHANGED deviceCache]_vars

\* the cache holds the empty list of an enumeration made less than the TTL ago,
\* and a request is waiting for the executor again
C22_Witness ==
    \E r \in ExecIds :
        /\ executes[r].pc = "awaitDevices"
        /\ EmptyAndYoung
        /\ executes[r].startNow - deviceCache.timestamp < CACHE_TTL

\* POST /api/config of any session, with or without a binary and a device
BinaryPostConfig ==
    \E id \in Clients, adbCommand \in {""} \union Binaries, hasSerial \in BOOLEAN :
        /\ PostConfig(id, adbCommand, hasSerial, IF hasSerial THEN ABC123 ELSE <<>>)
        /\ UNCHANGED <<now, deviceCache, executes>>
        /\ UNCHANGED <<statusVars, dltVars>>

\* the sessions change the binary and select devices, and run commands
BinaryNext ==
    \/ BinaryPostConfig
    \/ \E r \in ExecIds, id \in Clients, command \in {CmdSetImei}, targetSerial \in { <<>> } :
          ExecuteStart(r, id, command, targetSerial)
    \/ \E r \in ExecIds, stdout \in {DevicesOne, DevicesMixed} : ExecuteDevicesReturn(r, stdout)
    \/ \E r \in ExecIds : ExecuteResolve(r)
    \/ \E r \in ExecIds, result \in ExecResults : ExecuteReturn(r, result)
    \/ \E r \in ExecIds : ExecuteFinish(r)

BinarySpec == Init /\ [][BinaryNext]_vars

\* C23: every POST /api/execute runs its commands with the process-wide binary,
\* the one the last POST /api/config that changed it has set, whichever session
\* sends the request
C23_BinaryIsProcessWide ==
    [][\A r \in ExecIds :
          (executes[r].pc = "idle" /\ executes'[r].pc \in {"resolve", "awaitDevices"}) =>
              executes'[r].binary = config]_vars

(***************************************************************************)
(* Properties of the privilege probe                                       *)
(***************************************************************************)
\* the status evaluations on a host where `shell whoami` fails every time:
\* execAsync resolves with an empty stdout (lines 304-319)
SilentProbeNext ==
    \/ \E e \in StatusIds, id \in ActiveClients : StatusStart(e, id)
    \/ \E e \in StatusIds, stdout \in StatusDevicesOutputs : StatusDevicesReturn(e, stdout)
    \/ \E e \in StatusIds : StatusWhoamiReturn(e, <<>>)
    \/ \E e \in StatusIds, stdout \in VersionOutputs : StatusVersionReturn(e, stdout)
    \/ \E e \in StatusIds, q \in QueryResults : StatusQueriesReturn(e, q)
    \/ \E e \in StatusIds, iMatch \in Imei0Results : StatusImei0Return(e, iMatch)
    \/ \E e \in StatusIds : StatusFinish(e)
    \/ RootChainStep

SilentProbeSpec == Init /\ [][SilentProbeNext]_vars

\* C24: when the privilege probe of a ready device fails, the evaluation issues
\* no elevation command for the device and leaves its elevation state as it was
C24_FailedProbeIssuesNothing ==
    [][\A e \in StatusIds, k \in Keys :
          ProbeReturns(e, k) =>
              /\ rootStatus'[k] = rootStatus[k]
              /\ rootIssued'[k] = rootIssued[k]]_vars

(***************************************************************************)
(* Properties of the registry of the DLT bridges                           *)
(***************************************************************************)
\* no launch-dlt or stop-dlt is inside its handler
Quiescent == \A r \in DltIds : dlts[r].pc \in {"idle", "responded"}

\* the public ports of the bridges in dltProxies
RegisteredPorts == { dltProxies[c].publicPort : c \in { d \in Clients : dltProxies[d].set } }

\* C25: whenever no launch-dlt or stop-dlt is in flight, usedDltPorts is the set
\* of the public ports of the bridges in dltProxies, and every proxy server that
\* listens is the proxy of a bridge in dltProxies
C25_RegistryConsistent ==
    Quiescent =>
        /\ usedDltPorts = RegisteredPorts
        /\ \A h \in listeners : \E c \in Clients :
              dltProxies[c].set /\ dltProxies[c].proxy = h

\* session c has a bridge whose proxy server listens and whose forward, from
\* its internal port to its device, is there
BridgeForwarded(c) ==
    /\ dltProxies[c].set /\ dltProxies[c].proxy \in listeners
    /\ forwards[dltProxies[c].internalPort] = dltProxies[c].serial

\* C26: no step of a launch-dlt removes or re-targets the forward of a
\* listening bridge of another session
C26_ForwardOfOthersKept ==
    [][\A r \in DltIds : LaunchSteps(r) =>
          \A c \in Clients \ {LaunchClient(r)} :
              BridgeForwarded(c) =>
                  forwards'[dltProxies[c].internalPort]
                      = forwards[dltProxies[c].internalPort]]_vars

\* session c has the bridge on port p and its proxy server listens
BridgeUp(c, p) ==
    /\ dltProxies[c].set /\ dltProxies[c].publicPort = p
    /\ dltProxies[c].proxy \in listeners

\* the step in which launch-dlt r answers success
LaunchSucceeds(r) ==
    /\ LaunchSteps(r)
    /\ dlts'[r].pc = "responded" /\ dlts'[r].res.success

\* the step in which a stop-dlt or a launch-dlt for session c arrives
RequestArrivesFor(c) ==
    \E q \in DltIds :
        dlts[q].pc = "idle" /\ dlts'[q].pc # "idle" /\ dlts'[q].client = c

\* a launch-dlt of session c has been answered with success and port p
SuccessReported(c, p) ==
    \E r \in DltIds :
        /\ LaunchAnswered(r) /\ dlts[r].res.success
        /\ dlts[r].client = c /\ dlts[r].res.port = p

\* C27: in the step in which a launch-dlt answers success with port p to
\* session c, c has the bridge on p with its proxy server listening; and a
\* bridge so reported stays as it is in every step other than the arrival of a
\* stop-dlt or launch-dlt for c: a teardown that was already in flight neither
\* deletes nor closes it
C27_ReportedBridgeStays ==
    [][/\ \A r \in DltIds : LaunchSucceeds(r) =>
              /\ dltProxies'[dlts'[r].client].set
              /\ dltProxies'[dlts'[r].client].publicPort = dlts'[r].res.port
              /\ dltProxies'[dlts'[r].client].proxy \in listeners'
       /\ \A c \in Clients : \A p \in TryPorts :
              (SuccessReported(c, p) /\ BridgeUp(c, p) /\ ~RequestArrivesFor(c)) =>
                  /\ dltProxies'[c] = dltProxies[c]
                  /\ dltProxies[c].proxy \in listeners']_vars

\* the step in which launch-dlt r answers an error
LaunchFails(r) ==
    /\ LaunchSteps(r)
    /\ dlts'[r].pc = "responded" /\ ~dlts'[r].res.success

\* C28: the step in which a launch-dlt answers an error changes nothing of the
\* bridges, and a launch-dlt that found the session owning a bridge when it
\* arrived and answers an error leaves the session that bridge: the same
\* entry in dltProxies, its proxy server listening, its port tracked in use
C28_ErrorKeepsBridge ==
    [][\A r \in DltIds : LaunchFails(r) =>
          /\ dltProxies' = dltProxies
          /\ listeners' = listeners
          /\ usedDltPorts' = usedDltPorts
          /\ dlts[r].entry.set =>
                /\ dltProxies'[dlts'[r].client] = dlts[r].entry
                /\ dlts[r].entry.proxy \in listeners'
                /\ dlts[r].entry.publicPort \in usedDltPorts']_vars

\* C29: a launch-dlt of a session that has the bridge of an earlier launch-dlt
\* for the same device and the same requested port, with no other request in
\* between, creates and closes no proxy server in any of its steps and answers
\* success with the port of that bridge, also when that port was assigned
\* automatically and is not the requested one
C29_RepeatedLaunchIsIdempotent ==
    [][\A r \in DltIds :
          LET c == LaunchClient(r)
          IN  (/\ LaunchSteps(r)
               /\ dltProxies[c].set
               /\ dltProxies[c].serial = userConfigs[c].serial) =>
                  /\ listeners' = listeners
                  /\ dlts'[r].pc = "responded" =>
                        /\ dlts'[r].res.success
                        /\ dlts'[r].res.port = dltProxies[c].publicPort]_vars

(***************************************************************************)
(* Properties of the elevation state, continued                            *)
(***************************************************************************)
\* C30: once the elevation state of a key is done it stays done, and no root
\* command is issued for the key afterwards, however the status evaluations
\* overlap
C30_DoneIsAbsorbing ==
    [][\A k \in Keys :
          rootStatus[k] = "done" =>
              /\ rootStatus'[k] = "done"
              /\ rootIssued'[k] = rootIssued[k]]_vars

============================================================================
